---- MODULE Spec2Model ----
(***************************************************************************)
(* Connectors of explainerdashboard (dashboard_components/connectors.py):  *)
(* construction (resolution of the input / output references to channel    *)
(* ids) and the reactive handlers they register with the Dash runtime.     *)
(*                                                                         *)
(* Components (overview_components.py, regression_components.py,          *)
(* shap_components.py): names and channel ids, the reactive handlers and   *)
(* to_html, the state schema, and the dependencies declared on the model.  *)
(*                                                                         *)
(* A Python str is a sequence of one-character strings, so that iterating  *)
(* a str yields its characters, as `for x in s` does.                      *)
(***************************************************************************)
EXTENDS Integers, Sequences, FiniteSets, TLC

VARIABLES
    args,       \* build: the arguments of the last connector constructor call
    built,      \* build: what that call produced (a connector, or a raised ValueError)
    conns,      \* live: the connectors of the dashboard (a sequence)
    chan,       \* live: channel id -> current "value" property in the browser
    todo,       \* live: per connector, the requested callback (or Idle)
    nUser,      \* live: the number of direct (user) changes made so far
    lastSet,    \* live: the latest direct change, [ch, v]
    touched,    \* live: channels whose latest write was a direct change
    changed,    \* live: per connector, whether its input was written since page load
    lastAct,    \* live: the step taken last, and the channels it wrote as a handler
    comps,      \* components: the components constructed so far (a sequence)
    registry,   \* components: the process-wide registry of generated names
    cand,       \* components: the name just generated, before the registry check
    call,       \* components: the handler or method invoked, with its arguments
    ret,        \* components: what that call returned or raised
    screen,     \* components: the values of the call's output channels in the browser
    insts,      \* registrar: the components constructed on the model (a sequence)
    cache,      \* registrar: the keys (dependency, label) whose value is cached
    calls,      \* registrar: per key, how often the model's accessor was invoked
    pc,         \* registrar: per session, the key it is computing (or Idle)
    hist,       \* registrar: whether a component was rendered, whether accesses overlapped
    recv        \* registrar: per session, what its latest access returned

connVars == <<args, built, conns, chan, todo, nUser, lastSet, touched, changed, lastAct>>
nameVars == <<comps, registry, cand>>
callVars == <<call, ret, screen>>
regVars == <<insts, cache, calls, pc, hist, recv>>
compVars == <<nameVars, callVars, regVars>>
vars == <<connVars, compVars>>

\* ------------------------------------------------------------------ bounds
MaxOutputs == 2     \* longest list of output references handed to a constructor
MaxUserSets == 2    \* direct changes of channels per run

\* ------------------------------------------------------- Python values
Range(q) == {q[i] : i \in 1..Len(q)}

NoneVal == "None"

\* "pos-label-"  (connectors.py:250)
PosLabelPrefix == <<"p","o","s","-","l","a","b","e","l","-">>
\* "cutoffconnector-cutoff-"  (connectors.py:67)
CutoffPrefix == <<"c","u","t","o","f","f","c","o","n","n","e","c","t","o","r","-","c","u","t","o","f","f","-">>
\* "pdp-index-"  (overview_components.py:725)
PdpIndexPrefix == <<"p","d","p","-","i","n","d","e","x","-">>

\* A Python object handed to a constructor.  ty: "str", "comp" (an
\* ExplainerComponent), "selector" (a PosLabelSelector, itself an
\* ExplainerComponent), "list", "other" (anything else, e.g. an int).
\* s: the characters of a str, or the .name of a component.
\* has: the attributes hasattr() finds on it; the fields named like the
\* attributes hold their values.  sel: the type of the object its .selector
\* attribute holds ("selector" for a PosLabelSelector).
Obj(ty, s, has, sel, items) ==
    [ty |-> ty, s |-> s, has |-> has, items |-> items,
     cutoff_name |-> CutoffPrefix \o s,
     index_name |-> PdpIndexPrefix \o s,
     highlight_name |-> <<"h","l","-">> \o s,
     pos_labels |-> <<PosLabelPrefix \o s, PosLabelPrefix \o <<"Z">>>>,
     selector |-> [ty |-> sel, name |-> s]]

StrObj(s) == Obj("str", s, {}, "other", <<>>)
CompObj(name, has, sel) == Obj("comp", name, has, sel, <<>>)
SelectorObj(name) == Obj("selector", name, {}, "other", <<>>)
OtherObj == Obj("other", <<>>, {}, "other", <<>>)
ListObj(items) == Obj("list", <<>>, {}, "other", items)

\* results of the name-resolution functions: a str, a list of str, or a raised ValueError
PyStr(s) == [k |-> "str", s |-> s, l |-> <<>>]
PyList(l) == [k |-> "list", s |-> <<>>, l |-> l]
ValueError == [k |-> "ValueError", s |-> <<>>, l |-> <<>>]

\* hasattr(x, "__iter__"): lists and, in Python 3, str
hasattr_iter(x) == x.ty \in {"list", "str"}

\* the elements `for e in x` yields
Iter(x) ==
    IF x.ty = "list" THEN x.items
    ELSE [i \in 1..Len(x.s) |-> StrObj(<<x.s[i]>>)]

\* isinstance(o, ExplainerComponent)
isExplainerComponent(o) == o.ty \in {"comp", "selector"}

\* list(set(l)): the distinct elements, in the set's iteration order
RECURSIVE list_set(_)
list_set(S) ==
    IF S = {} THEN <<>>
    ELSE LET x == CHOOSE y \in S : TRUE
         IN <<x>> \o list_set(S \ {x})

RECURSIVE Flatten(_)
Flatten(ll) == IF ll = <<>> THEN <<>> ELSE Head(ll) \o Flatten(Tail(ll))

\* ------------------------------------------------ PosLabelConnector
\* PosLabelConnector._get_pos_label
PosLabelConnector_get_pos_label(input_pos_label) ==
    IF input_pos_label.ty = "selector"
    THEN PyStr(PosLabelPrefix \o input_pos_label.s)
    ELSE IF "selector" \in input_pos_label.has /\ input_pos_label.selector.ty = "selector"
    THEN PyStr(PosLabelPrefix \o input_pos_label.selector.name)
    ELSE IF input_pos_label.ty = "str"
    THEN PyStr(input_pos_label.s)
    ELSE ValueError

\* the inner get_pos_labels(o) of PosLabelConnector._get_pos_labels
get_pos_labels(o) ==
    IF o.ty = "selector" THEN <<PosLabelPrefix \o o.s>>
    ELSE IF o.ty = "str" THEN <<o.s>>
    ELSE IF "pos_labels" \in o.has THEN o.pos_labels
    ELSE <<>>

\* mutant: _get_pos_labels without the set(): the flattened list as collected
PosLabelConnector_get_pos_labels_noset(output_pos_labels) ==
    IF hasattr_iter(output_pos_labels)
    THEN LET it == Iter(output_pos_labels)
         IN Flatten([i \in 1..Len(it) |-> get_pos_labels(it[i])])
    ELSE get_pos_labels(output_pos_labels)

\* PosLabelConnector._get_pos_labels
PosLabelConnector_get_pos_labels(output_pos_labels) ==
    IF hasattr_iter(output_pos_labels)
    THEN LET it == Iter(output_pos_labels)
             pos_labels == Flatten([i \in 1..Len(it) |-> get_pos_labels(it[i])])
         IN list_set(Range(pos_labels))
    ELSE get_pos_labels(output_pos_labels)

\* the explainer argument of IndexConnector: None, or a model whose
\* index_exists(index) holds for the records in idxs
NoExplainer == [given |-> FALSE, idxs |-> {}]
Explainer(idxs) == [given |-> TRUE, idxs |-> idxs]

\* a constructed connector; ok = FALSE when the constructor raised
Connector(cls, input, outputs, explainer) ==
    [cls |-> cls, ok |-> TRUE, input |-> input, outputs |-> outputs, explainer |-> explainer]
Raised(cls) ==
    [cls |-> cls, ok |-> FALSE, input |-> ValueError, outputs |-> <<>>, explainer |-> NoExplainer]

\* q without the elements equal to x
RECURSIVE Without(_, _)
Without(q, x) ==
    IF q = <<>> THEN <<>>
    ELSE IF Head(q) = x THEN Without(Tail(q), x)
    ELSE <<Head(q)>> \o Without(Tail(q), x)

\* mutant: __init__ with the removal of the input id from the outputs
\* (the lines the source keeps commented out) switched on
PosLabelConnector_init_remove(input_pos_label, output_pos_labels) ==
    LET input_pos_label_name == PosLabelConnector_get_pos_label(input_pos_label)
    IN IF input_pos_label_name.k = "ValueError" THEN Raised("PosLabelConnector")
       ELSE Connector("PosLabelConnector", input_pos_label_name,
                      Without(PosLabelConnector_get_pos_labels(output_pos_labels),
                              input_pos_label_name.s),
                      NoExplainer)

\* PosLabelConnector.__init__
PosLabelConnector_init(input_pos_label, output_pos_labels) ==
    LET input_pos_label_name == PosLabelConnector_get_pos_label(input_pos_label)
    IN IF input_pos_label_name.k = "ValueError" THEN Raised("PosLabelConnector")
       ELSE Connector("PosLabelConnector", input_pos_label_name,
                      PosLabelConnector_get_pos_labels(output_pos_labels), NoExplainer)

\* -------------------------------- Cutoff / Index / Highlight connectors
\* the inner get_cutoff_name(o) of CutoffConnector.cutoff_name
get_cutoff_name(o) ==
    IF o.ty = "str" THEN PyStr(o.s)
    ELSE IF isExplainerComponent(o)
    THEN IF "cutoff_name" \notin o.has THEN ValueError ELSE PyStr(o.cutoff_name)
    ELSE ValueError

\* CutoffConnector.cutoff_name
cutoff_name(cutoffs) ==
    IF hasattr_iter(cutoffs)
    THEN LET it == Iter(cutoffs)
             rs == [i \in 1..Len(it) |-> get_cutoff_name(it[i])]
         IN IF \E i \in 1..Len(it) : rs[i].k = "ValueError" THEN ValueError
            ELSE PyList([i \in 1..Len(it) |-> rs[i].s])
    ELSE get_cutoff_name(cutoffs)

\* mutant: get_index_name without the hasattr check, falling back on the
\* component's name
get_index_name_nocheck(o) ==
    IF o.ty = "str" THEN PyStr(o.s)
    ELSE IF isExplainerComponent(o)
    THEN IF "index_name" \notin o.has THEN PyStr(o.s) ELSE PyStr(o.index_name)
    ELSE ValueError

\* the inner get_index_name(o) of IndexConnector.index_name
get_index_name(o) ==
    IF o.ty = "str" THEN PyStr(o.s)
    ELSE IF isExplainerComponent(o)
    THEN IF "index_name" \notin o.has THEN ValueError ELSE PyStr(o.index_name)
    ELSE ValueError

\* IndexConnector.index_name
index_name(indexes) ==
    IF hasattr_iter(indexes)
    THEN LET it == Iter(indexes)
             rs == [i \in 1..Len(it) |-> get_index_name(it[i])]
         IN IF \E i \in 1..Len(it) : rs[i].k = "ValueError" THEN ValueError
            ELSE PyList([i \in 1..Len(it) |-> rs[i].s])
    ELSE get_index_name(indexes)

\* the inner get_highlight_name(o) of HighlightConnector.highlight_name
get_highlight_name(o) ==
    IF o.ty = "str" THEN PyStr(o.s)
    ELSE IF isExplainerComponent(o)
    THEN IF "highlight_name" \notin o.has THEN ValueError ELSE PyStr(o.highlight_name)
    ELSE ValueError

\* HighlightConnector.highlight_name
highlight_name(highlights) ==
    IF hasattr_iter(highlights)
    THEN LET it == Iter(highlights)
             rs == [i \in 1..Len(it) |-> get_highlight_name(it[i])]
         IN IF \E i \in 1..Len(it) : rs[i].k = "ValueError" THEN ValueError
            ELSE PyList([i \in 1..Len(it) |-> rs[i].s])
    ELSE get_highlight_name(highlights)

\* `if not isinstance(names, list): names = [names]`
AsList(names) == IF names.k = "list" THEN names.l ELSE <<names.s>>

\* CutoffConnector.__init__
CutoffConnector_init(input_cutoff, output_cutoffs) ==
    LET input_cutoff_name == cutoff_name(input_cutoff)
        output_cutoff_names == cutoff_name(output_cutoffs)
    IN IF input_cutoff_name.k = "ValueError" \/ output_cutoff_names.k = "ValueError"
       THEN Raised("CutoffConnector")
       ELSE Connector("CutoffConnector", input_cutoff_name, AsList(output_cutoff_names), NoExplainer)

\* IndexConnector.__init__
IndexConnector_init(input_index, output_indexes, explainer) ==
    LET input_index_name == index_name(input_index)
        output_index_names == index_name(output_indexes)
    IN IF input_index_name.k = "ValueError" \/ output_index_names.k = "ValueError"
       THEN Raised("IndexConnector")
       ELSE Connector("IndexConnector", input_index_name, AsList(output_index_names), explainer)

\* HighlightConnector.__init__
HighlightConnector_init(input_highlight, output_highlights) ==
    LET input_highlight_name == highlight_name(input_highlight)
        output_highlight_names == highlight_name(output_highlights)
    IN IF input_highlight_name.k = "ValueError" \/ output_highlight_names.k = "ValueError"
       THEN Raised("HighlightConnector")
       ELSE Connector("HighlightConnector", input_highlight_name,
                      AsList(output_highlight_names), NoExplainer)

Classes == {"PosLabelConnector", "CutoffConnector", "IndexConnector", "HighlightConnector"}

\* cls(input, outputs[, explainer])
New(cls, input, outputs, explainer) ==
    CASE cls = "PosLabelConnector" -> PosLabelConnector_init(input, outputs)
      [] cls = "CutoffConnector" -> CutoffConnector_init(input, outputs)
      [] cls = "IndexConnector" -> IndexConnector_init(input, outputs, explainer)
      [] cls = "HighlightConnector" -> HighlightConnector_init(input, outputs)

\* ------------------------------------------------------------ handlers
\* what a handler hands back: a tuple of values, or PreventUpdate
Return(vals) == [upd |-> TRUE, vals |-> vals]
PreventUpdate == [upd |-> FALSE, vals |-> <<>>]

\* dash.callback_context.triggered_id: None on the page-load call, else
\* the id of the channel whose change requested the call
NoTrigger == [some |-> FALSE, id |-> <<>>]
Triggered(id) == [some |-> TRUE, id |-> id]

\* BaseExplainer.index_exists
index_exists(explainer, index) == index \in explainer.idxs

\* PosLabelConnector.component_callbacks.update_pos_labels
update_pos_labels(self, pos_label) ==
    Return([i \in 1..Len(self.outputs) |-> pos_label])

\* mutant: update_cutoffs returning one value too few
update_cutoffs_short(self, cutoff) ==
    Return([i \in 1..(Len(self.outputs) - 1) |-> cutoff])

\* CutoffConnector.component_callbacks.update_cutoffs
update_cutoffs(self, cutoff) ==
    Return([i \in 1..Len(self.outputs) |-> cutoff])

\* mutant: update_highlights losing the value of the first output
update_highlights_index(self, highlight) ==
    Return([i \in 1..Len(self.outputs) |-> IF i = 1 THEN NoneVal ELSE highlight])

\* HighlightConnector.component_callbacks.update_highlights
update_highlights(self, highlight) ==
    Return([i \in 1..Len(self.outputs) |-> highlight])

\* mutant: update_indexes without the index_exists validation
update_indexes_novalidate(self, triggered_id, index) ==
    IF ~(triggered_id.some /\ self.input.k = "str" /\ triggered_id.id = self.input.s)
    THEN PreventUpdate
    ELSE IF index # NoneVal
    THEN Return([i \in 1..Len(self.outputs) |-> index])
    ELSE PreventUpdate

\* mutant: update_indexes without the triggered_id check
update_indexes_anytrigger(self, triggered_id, index) ==
    IF self.explainer.given
    THEN IF index # NoneVal /\ index_exists(self.explainer, index)
         THEN Return([i \in 1..Len(self.outputs) |-> index])
         ELSE PreventUpdate
    ELSE IF index # NoneVal
    THEN Return([i \in 1..Len(self.outputs) |-> index])
    ELSE PreventUpdate

\* mutant: update_indexes with the triggered_id check inverted (== for !=)
update_indexes_inverted(self, triggered_id, index) ==
    IF triggered_id.some /\ self.input.k = "str" /\ triggered_id.id = self.input.s
    THEN PreventUpdate
    ELSE IF self.explainer.given
    THEN IF index # NoneVal /\ index_exists(self.explainer, index)
         THEN Return([i \in 1..Len(self.outputs) |-> index])
         ELSE PreventUpdate
    ELSE IF index # NoneVal
    THEN Return([i \in 1..Len(self.outputs) |-> index])
    ELSE PreventUpdate

\* IndexConnector.component_callbacks.update_indexes
update_indexes(self, triggered_id, index) ==
    IF ~(triggered_id.some /\ self.input.k = "str" /\ triggered_id.id = self.input.s)
    THEN PreventUpdate
    ELSE IF self.explainer.given
    THEN IF index # NoneVal /\ index_exists(self.explainer, index)
         THEN Return([i \in 1..Len(self.outputs) |-> index])
         ELSE PreventUpdate
    ELSE IF index # NoneVal
    THEN Return([i \in 1..Len(self.outputs) |-> index])
    ELSE PreventUpdate

\* the handler a connector registers, applied to the runtime's trigger
\* identity and the current value of its Input
Handler(self, triggered_id, value) ==
    CASE self.cls = "PosLabelConnector" -> update_pos_labels(self, value)
      [] self.cls = "CutoffConnector" -> update_cutoffs(self, value)
      [] self.cls = "IndexConnector" -> update_indexes(self, triggered_id, value)
      [] self.cls = "HighlightConnector" -> update_highlights(self, value)

\* component_callbacks: the Input(...) id of the one callback
CallbackInput(self) == self.input.s

\* mutant: the Output list naming the Input id in place of the first output
CallbackOutputs_input(self) ==
    IF self.outputs = <<>> THEN <<>> ELSE <<self.input.s>> \o Tail(self.outputs)

\* component_callbacks: the ids of the Output(...) list of the one callback
CallbackOutputs(self) == self.outputs

\* component_callbacks: whether a callback is registered at all
\* (PosLabelConnector registers none for an empty output list)
Registers(self) ==
    self.ok /\ (self.cls = "PosLabelConnector" => self.outputs # <<>>)

\* ------------------------------------------------- construction (build)
NoArgs == [cls |-> "none", input |-> OtherObj, outputs |-> OtherObj, explainer |-> NoExplainer]
NotBuilt == Raised("none")

\* the state of the page before / outside the live run
NoAct == [kind |-> "load", h |-> 0, upd |-> FALSE, byInput |-> FALSE, wrote |-> {}]
NoSet == [ch |-> <<>>, v |-> NoneVal]

\* record ids the model knows of, and the values a channel can hold
Idxs == {"17", "42"}
Values == {NoneVal, "17", "42", "99"}

\* the objects the constructors are tried on
RawStrs == {<<>>, <<"x">>, <<"i","d">>, PosLabelPrefix \o <<"A">>}
CompAttrs == {"cutoff_name", "index_name", "highlight_name", "pos_labels", "selector"}
Items ==
    {StrObj(s) : s \in RawStrs}
    \cup {CompObj(<<"A">>, {}, "other")}
    \cup {CompObj(<<"A">>, {a}, "selector") : a \in CompAttrs}
    \cup {CompObj(<<"A">>, {"selector"}, "other")}
    \cup {CompObj(<<"B">>, CompAttrs, "selector")}
    \cup {SelectorObj(<<"A">>), SelectorObj(<<"B">>)}
    \cup {OtherObj}
ItemLists == UNION {[1..n -> Items] : n \in 0..MaxOutputs}
OutputArgs == Items \cup {ListObj(l) : l \in ItemLists}

\* no component has been constructed and no method called
NoCand == [some |-> FALSE, cls |-> "none", name |-> <<>>]
NoCall == [op |-> "none", mode |-> "none", drop |-> "none"]
NoRet == [kind |-> "idle", vals |-> <<>>, exc |-> ""]
NoHist == [rendered |-> FALSE, overlapped |-> FALSE]
NoComps ==
    /\ comps = <<>>
    /\ registry = {}
    /\ cand = NoCand
    /\ call = NoCall
    /\ ret = NoRet
    /\ screen = <<>>
    /\ insts = <<>>
    /\ cache = {}
    /\ calls = <<>>
    /\ pc = <<>>
    /\ hist = NoHist
    /\ recv = <<>>

InitBuild ==
    /\ args = NoArgs
    /\ built = NotBuilt
    /\ conns = <<>>
    /\ chan = <<>>
    /\ todo = <<>>
    /\ nUser = 0
    /\ lastSet = NoSet
    /\ touched = {}
    /\ changed = <<>>
    /\ lastAct = NoAct
    /\ NoComps

\* one constructor call cls(input, outputs[, explainer]) on a fresh object
Construct(cls, input, outputs, explainer) ==
    /\ args' = [cls |-> cls, input |-> input, outputs |-> outputs, explainer |-> explainer]
    /\ built' = New(cls, input, outputs, explainer)
    /\ UNCHANGED <<conns, chan, todo, nUser, lastSet, touched, changed, lastAct>>
    /\ UNCHANGED compVars

NextBuild ==
    /\ args = NoArgs
    /\ \E cls \in Classes, input \in Items, outputs \in OutputArgs,
          explainer \in {NoExplainer, Explainer(Idxs)} :
           /\ (explainer.given => cls = "IndexConnector")
           /\ Construct(cls, input, outputs, explainer)

SpecBuild == InitBuild /\ [][NextBuild]_vars

\* ---------------------------------------------------------- live run
\* the components of the dashboards that are run
IndexComp(name) == CompObj(name, {"index_name"}, "other")
CutoffComp(name) == CompObj(name, {"cutoff_name"}, "other")
HighlightComp(name) == CompObj(name, {"highlight_name"}, "other")

\* index channels wired back: A -> [B, C] validated against the model, B -> A unvalidated
IndexDashboard ==
    <<IndexConnector_init(IndexComp(<<"A">>),
                          ListObj(<<IndexComp(<<"B">>), IndexComp(<<"C">>)>>),
                          Explainer(Idxs)),
      IndexConnector_init(IndexComp(<<"B">>), IndexComp(<<"A">>), NoExplainer)>>

\* one cutoff fanned out to two components
CutoffDashboard ==
    <<CutoffConnector_init(CutoffComp(<<"P">>),
                           ListObj(<<CutoffComp(<<"Q">>), CutoffComp(<<"R">>)>>))>>

\* a chain of highlights T -> G -> H
HighlightDashboard ==
    <<HighlightConnector_init(HighlightComp(<<"T">>), HighlightComp(<<"G">>)),
      HighlightConnector_init(HighlightComp(<<"G">>), ListObj(<<HighlightComp(<<"H">>)>>))>>

\* a selector fanned out to a selector and a component's pos_labels, and a
\* connector all of whose outputs resolve to nothing
PosLabelDashboard ==
    <<PosLabelConnector_init(CompObj(<<"S">>, {"selector"}, "selector"),
                             ListObj(<<SelectorObj(<<"Y">>),
                                       CompObj(<<"Y">>, {"pos_labels"}, "other")>>)),
      PosLabelConnector_init(SelectorObj(<<"Y">>),
                             ListObj(<<CompObj(<<"N">>, {}, "other")>>))>>

Dashboards == {IndexDashboard, CutoffDashboard, HighlightDashboard, PosLabelDashboard}

Handlers == DOMAIN conns

\* the channels of the page: every id a connector of the dashboard names
Channels(cs) ==
    UNION {{CallbackInput(cs[h])} \cup Range(cs[h].outputs) : h \in DOMAIN cs}

\* a requested callback: the trigger it was requested for and the
\* callbacks that ran before it in the same chain
Idle == [req |-> FALSE, trig |-> NoTrigger, preds |-> {}]
Request(trig, preds) == [req |-> TRUE, trig |-> trig, preds |-> preds]

InitLive ==
    /\ args = NoArgs
    /\ built = NotBuilt
    /\ conns \in Dashboards
    /\ chan \in [Channels(conns) -> {NoneVal, "17"}]
    /\ todo = [h \in DOMAIN conns |->
                 IF Registers(conns[h]) THEN Request(NoTrigger, {}) ELSE Idle]
    /\ nUser = 0
    /\ lastSet = NoSet
    /\ touched = {}
    /\ changed = [h \in DOMAIN conns |-> FALSE]
    /\ lastAct = NoAct
    /\ NoComps

\* the user changes the control ch to v: every callback with Input ch is requested
UserSet(ch, v) ==
    /\ nUser < MaxUserSets
    /\ v # chan[ch]
    /\ chan' = [chan EXCEPT ![ch] = v]
    /\ todo' = [h \in Handlers |->
                  IF Registers(conns[h]) /\ CallbackInput(conns[h]) = ch
                  THEN Request(Triggered(ch), {}) ELSE todo[h]]
    /\ nUser' = nUser + 1
    /\ lastSet' = [ch |-> ch, v |-> v]
    /\ touched' = touched \cup {ch}
    /\ changed' = [h \in Handlers |-> changed[h] \/ CallbackInput(conns[h]) = ch]
    /\ lastAct' = [kind |-> "user", h |-> 0, upd |-> FALSE, byInput |-> FALSE, wrote |-> {}]
    /\ UNCHANGED <<args, built, conns>>
    /\ UNCHANGED compVars

\* the value a callback's result gives the channel ch
Written(outs, vals, ch) == vals[CHOOSE i \in 1..Len(outs) : outs[i] = ch]

\* the runtime runs the requested callback of connector h: the handler gets
\* the trigger and the current Input value; a returned tuple (one value per
\* Output) is written to the Outputs, and every callback whose Input was
\* written is requested, unless it already ran in this chain
Fire(h) ==
    /\ todo[h].req
    /\ LET self == conns[h]
           r == Handler(self, todo[h].trig, chan[CallbackInput(self)])
           outs == CallbackOutputs(self)
           applies == r.upd /\ Len(r.vals) = Len(outs)
           written == IF applies THEN Range(outs) ELSE {}
           preds == todo[h].preds \cup {h}
       IN /\ chan' = [ch \in DOMAIN chan |->
                        IF ch \in written THEN Written(outs, r.vals, ch) ELSE chan[ch]]
          /\ todo' = [g \in Handlers |->
                        IF Registers(conns[g]) /\ CallbackInput(conns[g]) \in written
                           /\ g \notin preds
                        THEN Request(Triggered(CallbackInput(conns[g])), preds)
                        ELSE IF g = h THEN Idle ELSE todo[g]]
          /\ touched' = touched \ written
          /\ changed' = [g \in Handlers |->
                           changed[g] \/ CallbackInput(conns[g]) \in written]
          /\ lastAct' = [kind |-> "fire", h |-> h, upd |-> applies,
                         byInput |-> todo[h].trig.some, wrote |-> written]
    /\ UNCHANGED <<args, built, conns, nUser, lastSet>>
    /\ UNCHANGED compVars

NextLive ==
    \/ \E ch \in DOMAIN chan, v \in Values : UserSet(ch, v)
    \/ \E h \in Handlers : Fire(h)

SpecLive == InitLive /\ [][NextLive]_vars

\* the runtime runs every requested callback
FairLive == SpecLive /\ WF_vars(\E h \in Handlers : Fire(h))

\* =================================================== the claims, live
InputOf(h) == CallbackInput(conns[h])
\* the step taken last was a firing of handler h
Fired(h, upd, byInput) ==
    /\ lastAct.kind = "fire" /\ lastAct.h = h
    /\ lastAct.upd = upd /\ lastAct.byInput = byInput
OutputsOf(h) == Range(conns[h].outputs)
Quiescent == \A h \in Handlers : ~todo[h].req
IdentityClasses == {"CutoffConnector", "HighlightConnector", "PosLabelConnector"}

\* C1: when the handler of a CutoffConnector, HighlightConnector or
\* PosLabelConnector with K >= 1 outputs fires with input value V, it returns
\* a tuple of exactly K values, each V, and every output channel holds V
\* after the step.
C1_IdentityBroadcast ==
    [][\A h \in Handlers :
          (Fire(h) /\ conns[h].cls \in IdentityClasses) =>
              LET V == chan[InputOf(h)]
                  r == Handler(conns[h], todo[h].trig, V)
              IN /\ r.upd
                 /\ Len(r.vals) = Len(conns[h].outputs)
                 /\ \A i \in 1..Len(r.vals) : r.vals[i] = V
                 /\ \A o \in OutputsOf(h) : chan'[o] = V]_vars

\* C1 witness: a CutoffConnector with two outputs has fired after the user
\* set its input to "42", and both outputs hold "42".
C1_Witness ==
    /\ lastAct.kind = "fire" /\ lastAct.upd
    /\ conns[lastAct.h].cls = "CutoffConnector"
    /\ Len(conns[lastAct.h].outputs) = 2
    /\ Cardinality(OutputsOf(lastAct.h)) = 2
    /\ lastSet = [ch |-> InputOf(lastAct.h), v |-> "42"]
    /\ \A o \in OutputsOf(lastAct.h) : chan[o] = "42"

\* whether update_indexes is meant to broadcast V
ValidIndex(self, V) ==
    V # NoneVal /\ (self.explainer.given => V \in self.explainer.idxs)

\* C2: update_indexes, fired by its declared input channel with value V,
\* writes V to every output channel if V is not None and (no model was
\* supplied or the model has the record V); otherwise it emits the no-op
\* signal and writes nothing.
C2_IndexBroadcastOrNoop ==
    [][\A h \in Handlers :
          (Fire(h) /\ conns[h].cls = "IndexConnector"
                   /\ todo[h].trig = Triggered(InputOf(h))) =>
              LET V == chan[InputOf(h)]
              IN IF ValidIndex(conns[h], V)
                 THEN lastAct'.upd /\ \A o \in OutputsOf(h) : chan'[o] = V
                 ELSE ~lastAct'.upd /\ chan' = chan]_vars

\* C2 witness: index connector A -> [B, C]; the user set A to the existing
\* record "42", the handler fired, and B holds "42".
C2_Witness ==
    /\ conns = IndexDashboard
    /\ Fired(1, TRUE, TRUE)
    /\ lastSet = [ch |-> InputOf(1), v |-> "42"]
    /\ chan[IndexComp(<<"B">>).index_name] = "42"

\* C3: update_indexes never writes an output channel when the runtime's
\* triggering channel identity differs from the declared input channel: it
\* emits the no-op signal whatever the index value is.
C3_AllOtherTriggersNoop ==
    \A h \in Handlers : conns[h].cls = "IndexConnector" =>
        \A t \in {NoTrigger} \cup {Triggered(ch) : ch \in DOMAIN chan}, v \in Values :
            t # Triggered(InputOf(h)) => ~update_indexes(conns[h], t, v).upd
C3_IgnoresOtherTriggers ==
    /\ []C3_AllOtherTriggersNoop
    /\ [][\A h \in Handlers :
             (Fire(h) /\ conns[h].cls = "IndexConnector"
                      /\ todo[h].trig # Triggered(InputOf(h))) =>
                 ~lastAct'.upd /\ chan' = chan]_vars

\* C3 witness: the handler of A -> [B, C] ran on a call not triggered by its
\* input (the page-load call) while A held an existing record that B did not
\* hold, and B was left as it was.
C3_Witness ==
    /\ conns = IndexDashboard
    /\ Fired(1, FALSE, FALSE)
    /\ chan[InputOf(1)] = "17"
    /\ chan[IndexComp(<<"B">>).index_name] = NoneVal

\* C4: a connector's handler only ever writes its output channels, and a
\* direct change of an output channel (one not made by the handler) does
\* not change the value of the connector's input channel.
C4_OnlyOutputsWritten ==
    [][/\ \A h \in Handlers :
             Fire(h) =>
                 /\ lastAct'.wrote \subseteq OutputsOf(h)
                 /\ \A ch \in DOMAIN chan \ OutputsOf(h) : chan'[ch] = chan[ch]
       /\ \A ch \in DOMAIN chan, v \in Values :
             UserSet(ch, v) =>
                 \A h \in Handlers :
                     (ch \in OutputsOf(h) /\ ch # InputOf(h)) =>
                         chan'[InputOf(h)] = chan[InputOf(h)]]_vars

\* C4 witness: the user changed an output channel of the cutoff connector
\* after the connector had broadcast, and the input channel kept its value.
C4_Witness ==
    /\ conns = CutoffDashboard
    /\ lastAct.kind = "user"
    /\ lastSet.ch \in OutputsOf(1) /\ lastSet.ch # InputOf(1)
    /\ Quiescent /\ nUser = 2
    /\ chan[InputOf(1)] = "42"
    /\ chan[lastSet.ch] = "99"

\* an output differs from the input only through a later direct change
InSync(h) == \A o \in OutputsOf(h) : chan[o] = chan[InputOf(h)] \/ o \in touched
Delivered(h) == Registers(conns[h]) /\ changed[h] /\ ~todo[h].req

\* C5 as claimed: once a connector's input has changed to V and no firing of
\* its handler is outstanding, every output channel holds V (unless changed
\* directly since).
C5_Orig_AllOutputsHoldV ==
    \A h \in Handlers : Delivered(h) => InSync(h)

\* C5 as amended: the same, except that an IndexConnector whose input value
\* is None or names no record of the supplied model leaves its outputs as
\* they were.
C5_OutputsHoldVUnlessInvalidIndex ==
    \A h \in Handlers :
        Delivered(h) =>
            \/ InSync(h)
            \/ /\ conns[h].cls = "IndexConnector"
               /\ ~ValidIndex(conns[h], chan[InputOf(h)])

\* C5 witness: the input of a connector with two outputs was changed to
\* "42", its handler has run, and both outputs hold "42", neither touched.
C5_Witness ==
    \E h \in Handlers :
        /\ Delivered(h) /\ Fired(h, TRUE, TRUE)
        /\ Cardinality(OutputsOf(h)) = 2
        /\ OutputsOf(h) \cap touched = {}
        /\ chan[InputOf(h)] = "42"
        /\ \A o \in OutputsOf(h) : chan[o] = "42"

NameClasses == {"CutoffConnector", "IndexConnector", "HighlightConnector"}

\* the public property a class reads off a component
AttrName(cls) ==
    CASE cls = "CutoffConnector" -> "cutoff_name"
      [] cls = "IndexConnector" -> "index_name"
      [] cls = "HighlightConnector" -> "highlight_name"
      [] OTHER -> "pos_labels"
AttrValue(cls, o) ==
    CASE cls = "CutoffConnector" -> o.cutoff_name
      [] cls = "IndexConnector" -> o.index_name
      [] cls = "HighlightConnector" -> o.highlight_name

\* the references the outputs argument holds
OutputRefs == IF args.outputs.ty = "list" THEN Range(args.outputs.items) ELSE {args.outputs}

\* the channel ids a reference stands for, by the documented rules
Denotes(cls, o) ==
    IF o.ty = "str" THEN {o.s}
    ELSE IF cls = "PosLabelConnector"
    THEN IF o.ty = "selector" THEN {PosLabelPrefix \o o.s}
         ELSE IF "pos_labels" \in o.has THEN Range(o.pos_labels)
         ELSE {}
    ELSE IF isExplainerComponent(o) /\ AttrName(cls) \in o.has THEN {AttrValue(cls, o)}
    ELSE {}

\* C7: construction of a Cutoff / Index / Highlight connector resolves the
\* input to exactly one channel id: a raw str to that whole str, a component
\* to its cutoff_name / index_name / highlight_name; and a raw str given as
\* the outputs resolves to the one-element list holding it.
C7_InputResolvesToOneId ==
    (built.ok /\ args.cls \in NameClasses) =>
        /\ args.input.ty = "str" => built.input = PyStr(args.input.s)
        /\ args.input.ty = "comp" => built.input = PyStr(AttrValue(args.cls, args.input))
        /\ args.outputs.ty = "str" => built.outputs = <<args.outputs.s>>

\* a component that does not expose what the class needs of it
LacksName(cls, o) == isExplainerComponent(o) /\ AttrName(cls) \notin o.has
LacksPosInput(o) ==
    o.ty = "comp" /\ ~("selector" \in o.has /\ o.selector.ty = "selector")
LacksPosOutput(o) == o.ty = "comp" /\ "pos_labels" \notin o.has

C9_Orig_OutputsExcludeInput ==
    (built.ok /\ built.input.k = "str") => built.input.s \notin Range(built.outputs)

\* C9 as amended: the resolved output ids include the input id exactly when
\* one of the output references handed in stands for that id; construction
\* neither rejects nor removes it.
C9_OutputsIncludeInputIffPassed ==
    (built.ok /\ built.input.k = "str" /\ args.outputs.ty # "str") =>
        (built.input.s \in Range(built.outputs)
            <=> \E o \in OutputRefs : built.input.s \in Denotes(args.cls, o))

\* C9 witness: a PosLabelConnector built from a selector and a list of
\* outputs holding that selector: its outputs include its input id.
C9_Witness ==
    /\ args.cls = "PosLabelConnector" /\ built.ok
    /\ args.input.ty = "selector" /\ args.outputs.ty = "list"
    /\ args.input \in OutputRefs
    /\ built.input.s \in Range(built.outputs)

\* C10: PosLabelConnector, given a list of outputs, resolves them into one
\* flat list that holds every channel id any element contributes and holds
\* no channel id twice.
C10_FlatAndDuplicateFree ==
    (args.cls = "PosLabelConnector" /\ built.ok /\ args.outputs.ty = "list") =>
        /\ Range(built.outputs) = UNION {Denotes("PosLabelConnector", o) : o \in OutputRefs}
        /\ Cardinality(Range(built.outputs)) = Len(built.outputs)

\* C10 witness: a list of a selector and a component whose pos_labels name
\* that selector's channel too: three ids collected, two kept.
C10_Witness ==
    /\ args.cls = "PosLabelConnector" /\ built.ok /\ args.outputs.ty = "list"
    /\ \E o1, o2 \in OutputRefs :
          /\ o1.ty = "selector" /\ o2.ty = "comp" /\ "pos_labels" \in o2.has
          /\ Denotes("PosLabelConnector", o1) \subseteq Denotes("PosLabelConnector", o2)
    /\ Len(built.outputs) = 2

\* ======================================================== components
\* --------------------------------------------- names and channel ids
MaxComps == 2       \* components constructed per run

\* "contributions-graph-"  (shap_components.py:2285)
ContribGraphStem ==
    <<"c","o","n","t","r","i","b","u","t","i","o","n","s","-","g","r","a","p","h","-">>
\* "feature-input-"  (overview_components.py:1313)
FeatureInputStem == <<"f","e","a","t","u","r","e","-","i","n","p","u","t","-">>
IndexPart == <<"i","n","d","e","x","-">>
InputPart == <<"i","n","p","u","t","-">>
PopoutPart == <<"p","o","p","o","u","t">>

\* what ShapContributionsGraphComponent puts between "contributions-graph-"
\* and its name: nothing for the graph itself, then one word per control
ContribGraphFields ==
    {<<>>, IndexPart,
     <<"t","i","t","l","e","-">>,
     <<"i","n","d","e","x","-","l","a","b","e","l","-">>,
     <<"d","e","p","t","h","-","l","a","b","e","l","-">>,
     <<"d","e","p","t","h","-">>,
     <<"s","o","r","t","i","n","g","-","l","a","b","e","l","-">>,
     <<"s","o","r","t","i","n","g","-">>,
     <<"o","r","i","e","n","t","a","t","i","o","n","-","l","a","b","e","l","-">>,
     <<"o","r","i","e","n","t","a","t","i","o","n","-">>}

\* every id ShapContributionsGraphComponent(name=name) owns
ShapContributionsGraphComponent_ids(name) ==
    {ContribGraphStem \o f \o name : f \in ContribGraphFields}
    \cup {ContribGraphStem \o name \o PopoutPart}
    \cup {PosLabelPrefix \o name}

\* the columns of the model's data set (explainer.columns_ranked_by_shap())
Features == {<<"a","g","e">>, <<"i","n","d","e","x">>}

\* every id FeatureInputComponent(name=name) owns
FeatureInputComponent_ids(name) ==
    {FeatureInputStem \o IndexPart \o name,
     FeatureInputStem \o <<"t","i","t","l","e","-">> \o name}
    \cup {FeatureInputStem \o f \o <<"-">> \o InputPart \o name : f \in Features}

IdClasses == {"ShapContributionsGraphComponent", "FeatureInputComponent"}

ChannelIds(c) ==
    IF c.cls = "ShapContributionsGraphComponent"
    THEN ShapContributionsGraphComponent_ids(c.name)
    ELSE FeatureInputComponent_ids(c.name)

\* names a caller may pass as name=
SuppliedNames ==
    {<<"A">>, <<"B">>, IndexPart \o <<"A">>, <<"A">> \o PopoutPart,
     InputPart \o <<"B">>, <<"t","i","t","l","e">>}

\* the random tokens the generator can draw
Tokens == {<<"u","1">>, <<"u","2">>, <<"u","3">>}

Component(cls, name, generated) == [cls |-> cls, name |-> name, generated |-> generated]

\* cls(explainer, name=name): the name is taken as given
Supply(cls, name) ==
    /\ Len(comps) < MaxComps
    /\ ~cand.some
    /\ comps' = Append(comps, Component(cls, name, FALSE))
    /\ UNCHANGED <<registry, cand>>
    /\ UNCHANGED callVars
    /\ UNCHANGED connVars
    /\ UNCHANGED regVars

\* cls(explainer) without a name: a random token is generated ...
Draw(cls, t) ==
    /\ Len(comps) < MaxComps
    /\ ~cand.some
    /\ cand' = [some |-> TRUE, cls |-> cls, name |-> t]
    /\ UNCHANGED <<comps, registry>>
    /\ UNCHANGED callVars
    /\ UNCHANGED connVars
    /\ UNCHANGED regVars

\* (the check left out)
Issue_unchecked ==
    /\ cand.some
    /\ comps' = Append(comps, Component(cand.cls, cand.name, TRUE))
    /\ registry' = registry \cup {cand.name}
    /\ cand' = NoCand
    /\ UNCHANGED callVars
    /\ UNCHANGED connVars
    /\ UNCHANGED regVars

\* ... checked against the registry of the names already issued ...
Issue ==
    /\ cand.some
    /\ cand.name \notin registry
    /\ comps' = Append(comps, Component(cand.cls, cand.name, TRUE))
    /\ registry' = registry \cup {cand.name}
    /\ cand' = NoCand
    /\ UNCHANGED callVars
    /\ UNCHANGED connVars
    /\ UNCHANGED regVars

\* ... and generated again on a collision
Regenerate ==
    /\ cand.some
    /\ cand.name \in registry
    /\ \E t \in Tokens : cand' = [cand EXCEPT !.name = t]
    /\ UNCHANGED <<comps, registry>>
    /\ UNCHANGED callVars
    /\ UNCHANGED connVars
    /\ UNCHANGED regVars

ConnIdle ==
    /\ args = NoArgs
    /\ built = NotBuilt
    /\ conns = <<>>
    /\ chan = <<>>
    /\ todo = <<>>
    /\ nUser = 0
    /\ lastSet = NoSet
    /\ touched = {}
    /\ changed = <<>>
    /\ lastAct = NoAct

InitNames == ConnIdle /\ NoComps

NextNames ==
    \/ \E cls \in IdClasses, name \in SuppliedNames : Supply(cls, name)
    \/ \E cls \in IdClasses, t \in Tokens : Draw(cls, t)
    \/ Issue
    \/ Regenerate

SpecNames == InitNames /\ [][NextNames]_vars

\* C11: components with pairwise distinct names (generated or supplied) own
\* pairwise disjoint sets of channel ids
C11_DistinctNamesDisjointIds ==
    \A i, j \in DOMAIN comps :
        comps[i].name # comps[j].name => ChannelIds(comps[i]) \cap ChannelIds(comps[j]) = {}

\* C12: the names generated for components built without a name are pairwise
\* distinct, and every one of them is in the registry
Generated == {i \in DOMAIN comps : comps[i].generated}
C12_GeneratedNamesDistinct ==
    /\ \A i, j \in Generated : i # j => comps[i].name # comps[j].name
    /\ \A i \in Generated : comps[i].name \in registry
C12_Witness ==
    /\ Cardinality(Generated) = MaxComps
    /\ Cardinality(registry) = MaxComps

\* ------------------------------------------------- reactive handlers
\* Python values of the controls: None is NoneVal, an int is its numeral
\* ("3"), a str is quoted ("'3'", "'None'")
StrNone == "'None'"

\* int(x): the number, or the exception raised
int_table == ("3" :> "3") @@ ("'3'" :> "3") @@ ("5" :> "5") @@ ("25" :> "25")
int_raises(x) ==
    IF x = NoneVal THEN "TypeError"
    ELSE IF x \in DOMAIN int_table THEN "" ELSE "ValueError"
int(x) == int_table[x]

\* x[0] on a range value: a pair can be subscripted, None cannot
SomeRange == "[lo, hi]"
subscript_raises(x) == IF x = NoneVal THEN "TypeError" ELSE ""

\* what a handler does: raise PreventUpdate, return a value per output,
\* fall off its end (return None), or raise
NoOp == [kind |-> "noop", vals |-> <<>>, exc |-> ""]
Out(vals) == [kind |-> "return", vals |-> vals, exc |-> ""]
ReturnNone == [kind |-> "none", vals |-> <<>>, exc |-> ""]
Fault(e) == [kind |-> "raise", vals |-> <<>>, exc |-> e]

\* self.explainer.<acc>(*a): the analytical output selected
Acc(acc, a) == [acc |-> acc, a |-> a, m |-> TRUE]
\* content made without the model: go.Figure(), html.Div(text), a style dict
Plain(what) == [acc |-> what, a |-> <<>>, m |-> FALSE]

TheModel == Explainer(Idxs)

\* the current values of the controls a handler is invoked with
Controls ==
    [index : {NoneVal, "17", "99"}, col : {NoneVal, "'age'"},
     depth : {NoneVal, StrNone, "'3'"},
     display : {"'observed'", "'predicted'", "'difference'", "'ratio'", "'log-ratio'"},
     sample : {NoneVal, "25"}, winsor : {NoneVal, "5", "'x'"},
     preds_or_y : {NoneVal, "'preds'", "'y'"},
     pred_range : {NoneVal, SomeRange}, residuals_range : {NoneVal, SomeRange},
     mask_any : BOOLEAN]
Rest == [index |-> NoneVal, col |-> NoneVal, depth |-> StrNone, display |-> "'observed'",
         sample |-> NoneVal, winsor |-> NoneVal, preds_or_y |-> NoneVal,
         pred_range |-> SomeRange, residuals_range |-> SomeRange, mask_any |-> TRUE]

\* PredictionSummaryComponent.update_output_div  (overview_components.py:187)
PredictionSummary_update_output_div(in) ==
    IF in.index # NoneVal /\ index_exists(TheModel, in.index)
    THEN Out(<<Acc("prediction_result_markdown", <<in.index>>)>>)
    ELSE NoOp

\* PdpComponent.update_pdp_graph  (overview_components.py:1162)
update_pdp_graph(in) ==
    IF in.col = NoneVal \/ in.index = NoneVal \/ ~index_exists(TheModel, in.index)
    THEN NoOp
    ELSE Out(<<Acc("plot_pdp",
                   <<in.col, in.index,
                     IF in.sample # NoneVal THEN int(in.sample) ELSE "100">>)>>)

\* FeatureInputComponent.update_whatif_inputs  (overview_components.py:1561)
update_whatif_inputs(in) ==
    IF in.index = NoneVal \/ ~index_exists(TheModel, in.index)
    THEN NoOp
    ELSE Out(<<Acc("get_X_row", <<in.index, "age">>), Acc("get_X_row", <<in.index, "index">>)>>)

\* RegressionPredictionSummaryComponent.update_output_div  (regression_components.py:1083)
RegressionPredictionSummary_update_output_div(in) ==
    IF in.index = NoneVal \/ ~index_exists(TheModel, in.index)
    THEN NoOp
    ELSE Out(<<Acc("prediction_result_df", <<in.index>>)>>)

\* ShapContributionsGraphComponent.update_output_div  (shap_components.py:2578)
ShapContributionsGraph_update_output_div(in) ==
    IF in.index = NoneVal \/ ~index_exists(TheModel, in.index)
    THEN Out(<<Plain("go.Figure()")>>)
    ELSE IF in.depth = StrNone
    THEN Out(<<Acc("plot_contributions", <<in.index, NoneVal>>)>>)
    ELSE IF int_raises(in.depth) # ""
    THEN Fault(int_raises(in.depth))
    ELSE Out(<<Acc("plot_contributions", <<in.index, int(in.depth)>>)>>)

\* ShapContributionsTableComponent.update_output_div  (shap_components.py:2959)
ShapContributionsTable_update_output_div(in) ==
    IF in.index = NoneVal \/ ~index_exists(TheModel, in.index)
    THEN Out(<<Plain("html.Div('Por favor, selecione um indice valido.')")>>)
    ELSE IF in.depth = StrNone
    THEN Out(<<Acc("get_contrib_summary_df", <<in.index, NoneVal>>)>>)
    ELSE IF int_raises(in.depth) # ""
    THEN Fault(int_raises(in.depth))
    ELSE Out(<<Acc("get_contrib_summary_df", <<in.index, int(in.depth)>>)>>)

\* RegressionVsColComponent.update_vs_col_graph  (regression_components.py:2089):
\* 'observed' and 'predicted' bind the plot to `figure` and fall off the end of
\* the function; the other display types reach a return that names `style`,
\* which is bound nowhere
update_vs_col_graph(in) ==
    IF in.display \in {"'observed'", "'predicted'"}
    THEN ReturnNone
    ELSE Fault("NameError")

\* RegressionRandomIndexComponent.update_residual_slider_limits
\* (regression_components.py:683)
update_residual_slider_limits(in) ==
    IF in.preds_or_y \notin {"'preds'", "'y'"} THEN NoOp
    ELSE IF subscript_raises(in.pred_range) # "" THEN Fault(subscript_raises(in.pred_range))
    ELSE IF ~in.mask_any
    THEN Out(<<Plain("0"), Plain("1"), Plain("[0, 1]"), Plain("marks"),
               Plain("0"), Plain("1"), Plain("[0, 1]"), Plain("marks")>>)
    ELSE IF subscript_raises(in.residuals_range) # ""
    THEN Fault(subscript_raises(in.residuals_range))
    ELSE Out(<<Acc("residuals.min", <<>>), Acc("residuals.max", <<>>),
               Acc("residuals.clip", <<in.residuals_range>>), Plain("marks"),
               Acc("abs_residuals.min", <<>>), Acc("abs_residuals.max", <<>>),
               Acc("abs_residuals.clip", <<in.residuals_range>>), Plain("marks")>>)

\* the handlers, the controls each one is registered with (its Inputs and
\* States) and the number of its Outputs
HandlerTable ==
    [PredictionSummary |-> [reads |-> {"index"}, outs |-> 1],
     Pdp |-> [reads |-> {"index", "col", "sample"}, outs |-> 1],
     FeatureInput |-> [reads |-> {"index"}, outs |-> Cardinality(Features)],
     RegressionPredictionSummary |-> [reads |-> {"index"}, outs |-> 1],
     ShapContributionsGraph |-> [reads |-> {"index", "depth"}, outs |-> 1],
     ShapContributionsTable |-> [reads |-> {"index", "depth"}, outs |-> 1],
     RegressionVsCol |-> [reads |-> {"col", "display", "winsor"}, outs |-> 4],
     RegressionRandomIndex |->
         [reads |-> {"preds_or_y", "pred_range", "residuals_range", "mask_any"}, outs |-> 8]]

LiveHandlers == DOMAIN HandlerTable

\* the handler of component class h applied to the control values in
Live(h, in) ==
    CASE h = "PredictionSummary" -> PredictionSummary_update_output_div(in)
      [] h = "Pdp" -> update_pdp_graph(in)
      [] h = "FeatureInput" -> update_whatif_inputs(in)
      [] h = "RegressionPredictionSummary" -> RegressionPredictionSummary_update_output_div(in)
      [] h = "ShapContributionsGraph" -> ShapContributionsGraph_update_output_div(in)
      [] h = "ShapContributionsTable" -> ShapContributionsTable_update_output_div(in)
      [] h = "RegressionVsCol" -> update_vs_col_graph(in)
      [] h = "RegressionRandomIndex" -> update_residual_slider_limits(in)

\* the assignments of the controls h reads (the others play no part)
InputsOf(h) ==
    {in \in Controls : \A f \in DOMAIN Rest \ HandlerTable[h].reads : in[f] = Rest[f]}

\* the runtime writes a result to the outputs when it is one value per
\* declared Output; PreventUpdate writes nothing; anything else (an
\* exception, None for a list of Outputs) is an error of the callback
Applies(h, r) == r.kind = "return" /\ Len(r.vals) = HandlerTable[h].outs
Propagates(h, r) == r.kind # "noop" /\ ~Applies(h, r)

\* what the outputs of h show before the handler runs
Shown(h) == [i \in 1..HandlerTable[h].outs |-> Plain("shown")]

\* a control changes: the runtime invokes the handler with the current values
Invoke(h, in) ==
    /\ call' = [op |-> h, mode |-> "live", drop |-> "none", in |-> in]
    /\ ret' = NoRet
    /\ screen' = Shown(h)
    /\ UNCHANGED nameVars
    /\ UNCHANGED connVars
    /\ UNCHANGED regVars

\* the handler runs and the runtime applies its result
Respond ==
    /\ call.mode = "live"
    /\ ret = NoRet
    /\ ret' = Live(call.op, call.in)
    /\ screen' = IF Applies(call.op, ret') THEN ret'.vals ELSE screen
    /\ UNCHANGED <<call>>
    /\ UNCHANGED nameVars
    /\ UNCHANGED connVars
    /\ UNCHANGED regVars

\* ------------------------------------------------- batch rendering
\* the keys of _state_props, among the controls above
\* (overview_components.py:639, 1324; regression_components.py:930, 1624)
state_props ==
    [Pdp |-> {"index", "col", "sample"},
     FeatureInput |-> {"index"},
     RegressionPredictionSummary |-> {"index"},
     RegressionVsCol |-> {"col", "display", "winsor"}]

Exported == DOMAIN state_props

\* the snapshot of the live state of component h, without the field drop
Snapshot(h, in, drop) == [k \in state_props[h] \ {drop} |-> in[k]]

\* (a projection that passes over the fields the snapshot lacks)
get_state_args_present(h, state_dict) ==
    [kind |-> "return", args |-> state_dict]

\* self.get_state_args(state_dict): the declared fields looked up in the
\* snapshot; a missing one fails with MissingStateError
get_state_args(h, state_dict) ==
    IF state_props[h] \subseteq DOMAIN state_dict
    THEN [kind |-> "return", args |-> [k \in state_props[h] |-> state_dict[k]]]
    ELSE [kind |-> "raise", args |-> <<>>]

\* args.get(k, default)
Get(a, k, default) == IF k \in DOMAIN a THEN a[k] ELSE default

\* PdpComponent.to_html  (overview_components.py:1068), no feature input component
Pdp_to_html(a) ==
    IF Get(a, "col", NoneVal) # NoneVal
    THEN IF Get(a, "index", NoneVal) # NoneVal
         THEN Out(<<Acc("plot_pdp", <<Get(a, "col", NoneVal), Get(a, "index", NoneVal),
                                      Get(a, "sample", "100")>>)>>)
         ELSE Out(<<Plain("Indice nao selecionado para o grafico PDP.")>>)
    ELSE Out(<<Plain("Dados de entrada invalidos ou insuficientes para gerar o grafico PDP.")>>)

\* FeatureInputComponent.to_html  (overview_components.py:1522)
FeatureInput_to_html(a) ==
    Out(<<[acc |-> "Selecionado:", a |-> <<Get(a, "index", "'Nenhum'")>>, m |-> FALSE]>>)

\* RegressionPredictionSummaryComponent.to_html  (regression_components.py:1039),
\* no feature input component
RegressionPredictionSummary_to_html(a) ==
    IF "index" \notin DOMAIN a THEN Fault("KeyError")
    ELSE IF a["index"] # NoneVal
    THEN Out(<<Acc("prediction_result_df", <<a["index"]>>)>>)
    ELSE Out(<<Plain("nenhum indice selecionado")>>)

\* RegressionVsColComponent.to_html  (regression_components.py:2026)
RegressionVsCol_to_html(a) ==
    IF ~({"col", "display", "winsor"} \subseteq DOMAIN a) THEN Fault("KeyError")
    ELSE IF a["display"] = "'observed'"
    THEN Out(<<Acc("plot_y_vs_feature", <<a["col"], a["winsor"]>>)>>)
    ELSE IF a["display"] = "'predicted'"
    THEN Out(<<Acc("plot_preds_vs_feature", <<a["col"], a["winsor"]>>)>>)
    ELSE Out(<<Acc("plot_residuals_vs_feature",
                   <<a["col"], a["display"], a["winsor"]>>)>>)

\* h.to_html(state_dict)
to_html(h, state_dict) ==
    LET got == get_state_args(h, state_dict)
    IN IF got.kind = "raise" THEN Fault("MissingStateError")
       ELSE CASE h = "Pdp" -> Pdp_to_html(got.args)
              [] h = "FeatureInput" -> FeatureInput_to_html(got.args)
              [] h = "RegressionPredictionSummary" -> RegressionPredictionSummary_to_html(got.args)
              [] h = "RegressionVsCol" -> RegressionVsCol_to_html(got.args)

\* the live state is captured as a snapshot (all of it, or lacking the field
\* drop) and the component is rendered from it
Export(drop) ==
    /\ call.mode = "live"
    /\ ret # NoRet
    /\ call.op \in Exported
    /\ drop \in state_props[call.op] \cup {"none"}
    /\ call' = [call EXCEPT !.mode = "batch", !.drop = drop]
    /\ ret' = to_html(call.op, Snapshot(call.op, call.in, drop))
    /\ UNCHANGED screen
    /\ UNCHANGED nameVars
    /\ UNCHANGED connVars
    /\ UNCHANGED regVars

NextHandlers ==
    \/ /\ call = NoCall
       /\ \E h \in LiveHandlers : \E in \in InputsOf(h) : Invoke(h, in)
    \/ Respond
    \/ \E drop \in DOMAIN Rest \cup {"none"} : Export(drop)

SpecHandlers == InitNames /\ [][NextHandlers]_vars

\* C13: a handler with an index input that is invoked with None or with an
\* index the model does not have raises nothing, emits the no-op signal and
\* leaves its outputs as they were
IndexHandlers == {h \in LiveHandlers : "index" \in HandlerTable[h].reads}
C13_InvalidIndexIsNoop ==
    [][(/\ call.op \in IndexHandlers
        /\ ret = NoRet /\ ret' # NoRet
        /\ (call.in.index = NoneVal \/ ~index_exists(TheModel, call.in.index)))
       => (ret'.kind = "noop" /\ screen' = screen)]_vars

\* C14: whatever the control values, a handler emits the no-op signal or
\* returns one value per declared output; update_vs_col_graph returns four
\* values for every display type
C14_NoFaultPropagates ==
    (call.op \in LiveHandlers /\ ret # NoRet) => ~Propagates(call.op, ret)

\* the model outputs a result shows: accessor and arguments
Selects(r) == IF r.kind = "return" THEN {v \in Range(r.vals) : v.m} ELSE {}

\* C15: to_html of the captured live state selects the analytical output the
\* live handler shows for the same control values: the same accessor with the
\* same arguments, and a plot exactly when the live handler renders one
C15_BatchSelectsWhatLiveShows ==
    (call.mode = "batch" /\ call.drop = "none")
        => Selects(ret) = Selects(Live(call.op, call.in))

Chars(s) == [i \in 1..Len(s) |-> SubSeq(s, i, i)]

\* str comparison: by code point, a proper prefix first
Alphabet == Chars("-0123456789ABCDEFGHIJKLMNOPQRSTUVWXYZabcdefghijklmnopqrstuvwxyz")
Ord(c) == CHOOSE i \in 1..Len(Alphabet) : Alphabet[i] = c
RECURSIVE StrLess(_, _)
StrLess(x, y) ==
    IF y = <<>> THEN FALSE
    ELSE IF x = <<>> THEN TRUE
    ELSE IF Head(x) = Head(y) THEN StrLess(Tail(x), Tail(y))
    ELSE Ord(Head(x)) < Ord(Head(y))

\* sorted(list(set(pairs))); the pairs are (id, "value"), ordered by the id
RECURSIVE sorted(_)
sorted(S) ==
    IF S = {} THEN <<>>
    ELSE LET m == CHOOSE x \in S : \A y \in S : ~StrLess(y.id, x.id)
         IN <<m>> \o sorted(S \ {m})

\* the id prefixes of the class attribute _state_props (every entry is
\* (prefix, "value")); CutoffPercentileComponent defines none
StateProps ==
    [PdpComponent |->
        {"pdp-index-", "pdp-col-", "pdp-dropna-", "pdp-sample-", "pdp-gridlines-",
         "pdp-gridpoints-", "pdp-categories-sort-", "pos-label-"},
     RegressionPredictionSummaryComponent |-> {"reg-prediction-index-"},
     ShapContributionsGraphComponent |->
        {"contributions-graph-index-", "contributions-graph-depth-",
         "contributions-graph-sorting-", "contributions-graph-orientation-", "pos-label-"},
     ShapContributionsTableComponent |->
        {"contributions-table-index-", "contributions-table-depth-",
         "contributions-table-sorting-", "pos-label-"},
     RegressionRandomIndexComponent |-> {"random-index-reg-index-"},
     CutoffPercentileComponent |-> {}]

\* the id prefixes of the "value" Inputs and States of the handlers that
\* component_callbacks registers, and of the fields to_html reads
ReadProps ==
    [PdpComponent |-> StateProps["PdpComponent"],
     RegressionPredictionSummaryComponent |-> {"reg-prediction-index-"},
     ShapContributionsGraphComponent |-> StateProps["ShapContributionsGraphComponent"],
     ShapContributionsTableComponent |-> StateProps["ShapContributionsTableComponent"],
     RegressionRandomIndexComponent |->
        {"random-index-reg-index-", "random-index-reg-preds-or-y-",
         "random-index-reg-abs-residual-", "random-index-reg-pred-slider-",
         "random-index-reg-y-slider-", "random-index-reg-residual-slider-",
         "random-index-reg-abs-residual-slider-"},
     CutoffPercentileComponent |-> {"cutoffconnector-percentile-", "pos-label-"}]

StateClasses == DOMAIN StateProps
\* the classes that take a feature_input_component
FeatureInputClasses == StateClasses \ {"RegressionRandomIndexComponent", "CutoffPercentileComponent"}

Pair(id) == [id |-> id, attr |-> "value"]
NoFeatureInput == <<>>

\* (prefix + self.name, "value") for the entries of _state_props
own_state_tuples(self) == {Pair(Chars(p) \o self.name) : p \in StateProps[self.cls]}

\* FeatureInputComponent._state_props is a dict keyed by feature, to which the
\* key "index" is assigned last  (overview_components.py:1321, 1324)
FeatureInput_state_tuples(name) ==
    {Pair(FeatureInputStem \o f \o <<"-">> \o InputPart \o name) :
        f \in Features \ {Chars("index")}}
    \cup {Pair(FeatureInputStem \o IndexPart \o name)}

\* ExplainerComponent.get_state_tuples
base_get_state_tuples(self) == sorted(own_state_tuples(self))

\* (the override without its sorted(list(set(...))))
get_state_tuples_extended(self) ==
    base_get_state_tuples(self)
    \o (IF self.fi # NoFeatureInput
        THEN sorted(FeatureInput_state_tuples(self.fi)) ELSE <<>>)

\* get_state_tuples of the components that take a feature_input_component
get_state_tuples(self) ==
    LET _state_tuples ==
            base_get_state_tuples(self)
            \o (IF self.fi # NoFeatureInput
                THEN sorted(FeatureInput_state_tuples(self.fi)) ELSE <<>>)
    IN sorted(Range(_state_tuples))

ComponentNames == SuppliedNames \cup Tokens

\* component.get_state_tuples() on a component of class cls
GetStateTuples(cls, name, fi) ==
    LET self == [cls |-> cls, name |-> name, fi |-> fi]
    IN /\ call' = [op |-> "get_state_tuples", mode |-> "schema", drop |-> "none", in |-> self]
       /\ ret' = Out(IF cls \in FeatureInputClasses
                     THEN get_state_tuples(self) ELSE base_get_state_tuples(self))
       /\ UNCHANGED screen
       /\ UNCHANGED nameVars
       /\ UNCHANGED connVars
       /\ UNCHANGED regVars

NextState ==
    /\ call = NoCall
    /\ \E cls \in StateClasses, name \in ComponentNames,
          fi \in ComponentNames \cup {NoFeatureInput} :
           /\ (fi # NoFeatureInput => cls \in FeatureInputClasses /\ fi # name)
           /\ GetStateTuples(cls, name, fi)

SpecState == InitNames /\ [][NextState]_vars

\* C16: get_state_tuples() of a component with a feature_input_component is
\* the sorted, duplicate-free list of its own pairs and the pairs of the
\* embedded FeatureInputComponent; without one it is exactly its own pairs
IsSortedNoDup(q) == \A i, j \in DOMAIN q : i < j => StrLess(q[i].id, q[j].id)
C16_StateTuplesSortedUnion ==
    (call.op = "get_state_tuples" /\ call.in.cls \in FeatureInputClasses)
        => /\ IsSortedNoDup(ret.vals)
           /\ Range(ret.vals) =
                own_state_tuples(call.in)
                \cup (IF call.in.fi # NoFeatureInput
                      THEN FeatureInput_state_tuples(call.in.fi) ELSE {})
C16_Witness ==
    /\ call.op = "get_state_tuples"
    /\ call.in.cls = "PdpComponent"
    /\ call.in.fi # NoFeatureInput
    /\ Len(ret.vals) = Cardinality(StateProps["PdpComponent"])
                        + Cardinality(FeatureInput_state_tuples(call.in.fi))

\* C17: the ids declared in _state_props include every "value" channel the
\* component's handlers read and every field its to_html reads
C17_StatePropsCoverReads ==
    call.op = "get_state_tuples"
        => {Chars(p) \o call.in.name : p \in ReadProps[call.in.cls]}
              \subseteq {t.id : t \in own_state_tuples(call.in)}

\* ------------------------------------------------ dependency registrar
MaxInsts == 2       \* components constructed on the model
MaxAccesses == 2    \* accesses to a dependency by rendering sessions

Sessions == {"s1", "s2"}
Labels == {"0", "1"}
DefaultLabel == "1"
Dependencies ==
    {"shap_values_df", "shap_interaction_values", "pdp", "permutation_importances"}
Keys == [dep : Dependencies, label : Labels]
IdleKey == [dep |-> "none", label |-> "none"]

RegistrarClasses ==
    {"ShapSummaryComponent", "ShapDependenceComponent", "PdpComponent", "ImportancesComponent"}

\* the arguments of register_dependencies in __init__
\* (shap_components.py:108, 490; overview_components.py:293-296, 772)
Declared(cls) ==
    CASE cls = "ShapSummaryComponent" -> {"shap_values_df"}
      [] cls = "ShapDependenceComponent" -> {"shap_values_df"}
      [] cls = "PdpComponent" -> {"pdp"}
      [] cls = "ImportancesComponent" -> {"shap_values_df", "permutation_importances"}

\* the accessors of the model that __init__ itself calls; given says that the
\* caller passed the optional arguments (col and color_col; depth for
\* ImportancesComponent, which then reads columns_ranked_by_shap() for the
\* default of getattr)
init_accessors(cls, given) ==
    CASE cls = "ShapSummaryComponent" -> {}
      [] cls = "ShapDependenceComponent" ->
            IF given THEN {} ELSE {"columns_ranked_by_shap", "top_shap_interactions"}
      [] cls = "PdpComponent" -> IF given THEN {} ELSE {"columns_ranked_by_shap"}
      [] cls = "ImportancesComponent" -> IF given THEN {"columns_ranked_by_shap"} ELSE {}

\* the dependency an accessor of the model computes
AccessorDependency ==
    [columns_ranked_by_shap |-> "shap_values_df",
     top_shap_interactions |-> "shap_interaction_values"]

Key(dep, label) == [dep |-> dep, label |-> label]

\* cls(explainer, ...), while the dashboard is built and before it is served:
\* __init__ runs, calling the accessors above (each computes its dependency
\* unless it is cached) and declaring its dependencies
ConstructOn(cls, given) ==
    LET needs == {Key(AccessorDependency[a], DefaultLabel) : a \in init_accessors(cls, given)}
    IN /\ Len(insts) < MaxInsts
       /\ ~hist.rendered
       /\ insts' = Append(insts, [cls |-> cls, given |-> given, deps |-> Declared(cls)])
       /\ calls' = [k \in Keys |-> IF k \in needs \ cache THEN calls[k] + 1 ELSE calls[k]]
       /\ cache' = cache \cup needs
       /\ UNCHANGED <<pc, hist, recv>>
       /\ UNCHANGED <<nameVars, callVars>>
       /\ UNCHANGED connVars

\* what an access hands to the session: nothing yet, the computed value of
\* a key, or an error
Nothing == [key |-> IdleKey, got |-> "nothing"]
Value(k) == [key |-> k, got |-> "value"]
Failure(k) == [key |-> k, got |-> "error"]

\* (an access that computes whether or not the key is cached)
Access_uncached(s, i, k) ==
    /\ pc[s] = IdleKey
    /\ hist.n < MaxAccesses
    /\ k.dep \in insts[i].deps
    /\ pc' = [pc EXCEPT ![s] = k]
    /\ calls' = [calls EXCEPT ![k] = @ + 1]
    /\ hist' = [hist EXCEPT !.rendered = TRUE, !.n = @ + 1]
    /\ recv' = [recv EXCEPT ![s] = Nothing]
    /\ UNCHANGED <<insts, cache>>
    /\ UNCHANGED <<nameVars, callVars>>
    /\ UNCHANGED connVars

\* session s renders component i, which accesses its dependency k: a cached
\* value is returned, else the accessor of the model is invoked
Access(s, i, k) ==
    /\ pc[s] = IdleKey
    /\ hist.n < MaxAccesses
    /\ k.dep \in insts[i].deps
    /\ IF k \in cache
       THEN /\ recv' = [recv EXCEPT ![s] = Value(k)]
            /\ UNCHANGED <<pc, calls>>
       ELSE /\ pc' = [pc EXCEPT ![s] = k]
            /\ calls' = [calls EXCEPT ![k] = @ + 1]
            /\ recv' = [recv EXCEPT ![s] = Nothing]
    /\ hist' = [rendered |-> TRUE,
                overlapped |-> hist.overlapped
                               \/ (k \notin cache /\ \E t \in Sessions \ {s} : pc[t] = k),
                n |-> hist.n + 1]
    /\ UNCHANGED <<insts, cache>>
    /\ UNCHANGED <<nameVars, callVars>>
    /\ UNCHANGED connVars

\* (a store that fails when another session has stored the key meanwhile)
Store_once(s) ==
    /\ pc[s] # IdleKey
    /\ cache' = cache \cup {pc[s]}
    /\ pc' = [pc EXCEPT ![s] = IdleKey]
    /\ recv' = [recv EXCEPT ![s] = IF pc[s] \in cache THEN Failure(pc[s]) ELSE Value(pc[s])]
    /\ UNCHANGED <<insts, calls, hist>>
    /\ UNCHANGED <<nameVars, callVars>>
    /\ UNCHANGED connVars

\* the accessor returns: the value is stored under its key, replacing what
\* another session may have stored meanwhile, and returned to the requester
Store(s) ==
    /\ pc[s] # IdleKey
    /\ cache' = cache \cup {pc[s]}
    /\ pc' = [pc EXCEPT ![s] = IdleKey]
    /\ recv' = [recv EXCEPT ![s] = Value(pc[s])]
    /\ UNCHANGED <<insts, calls, hist>>
    /\ UNCHANGED <<nameVars, callVars>>
    /\ UNCHANGED connVars

InitRegistrar ==
    /\ ConnIdle
    /\ comps = <<>> /\ registry = {} /\ cand = NoCand
    /\ call = NoCall /\ ret = NoRet /\ screen = <<>>
    /\ insts = <<>>
    /\ cache = {}
    /\ calls = [k \in Keys |-> 0]
    /\ pc = [s \in Sessions |-> IdleKey]
    /\ hist = [rendered |-> FALSE, overlapped |-> FALSE, n |-> 0]
    /\ recv = [s \in Sessions |-> Nothing]

NextRegistrar ==
    \/ \E cls \in RegistrarClasses, given \in BOOLEAN : ConstructOn(cls, given)
    \/ \E s \in Sessions, i \in DOMAIN insts, k \in Keys : Access(s, i, k)
    \/ \E s \in Sessions : Store(s)

SpecRegistrar == InitRegistrar /\ [][NextRegistrar]_vars

\* C19: as long as no component has been rendered, no accessor of the model
\* has been invoked for any dependency: construction computes nothing
C19_ConstructionComputesNothing ==
    ~hist.rendered => \A k \in Keys : calls[k] = 0

\* C20: when accesses follow one another, the accessor of a key is invoked
\* once, on the first access, and never again
InFlight(k) == \E s \in Sessions : pc[s] = k
C20_OneComputationPerKey ==
    ~hist.overlapped =>
        \A k \in Keys : calls[k] = IF k \in cache \/ InFlight(k) THEN 1 ELSE 0
C20_Witness ==
    /\ Len(insts) = 2
    /\ insts[1].cls = "ShapSummaryComponent"
    /\ insts[2] = [cls |-> "ShapDependenceComponent", given |-> TRUE, deps |-> {"shap_values_df"}]
    /\ hist.n = MaxAccesses
    /\ ~hist.overlapped
    /\ cache = {Key("shap_values_df", "1")}
    /\ calls[Key("shap_values_df", "1")] = 1

\* C21: sessions that request the same uncached key at the same time may
\* each invoke the accessor, yet no session is handed an error, every value
\* handed out is that of a cached key, and once the sessions are idle every
\* key that was computed is in the cache
AllIdle == \A s \in Sessions : pc[s] = IdleKey
C21_RaceConvergesToOneEntry ==
    /\ \A s \in Sessions : recv[s].got # "error"
    /\ \A s \in Sessions : recv[s].got = "value" => recv[s].key \in cache
    /\ AllIdle => \A k \in Keys : calls[k] > 0 => k \in cache
C21_Witness ==
    /\ hist.overlapped
    /\ AllIdle
    /\ calls[Key("shap_values_df", "1")] = 2
    /\ Key("shap_values_df", "1") \in cache
    /\ \A s \in Sessions : recv[s] = Value(Key("shap_values_df", "1"))

\* ------------------------------------------------- summary components
MaxChanges == 2     \* changes of a control after the page has loaded

SummaryClasses == {"ShapSummaryComponent", "InteractionSummaryComponent"}
SummaryTypes == {"'aggregate'", "'detailed'"}
SummaryControls ==
    [type : SummaryTypes, depth : {NoneVal, "'3'"}, index : {NoneVal, "17"},
     pos_label : Labels, col : {"'age'", "'fare'"}]
\* the Inputs of the graph handler of each class
SummaryInputs ==
    [ShapSummaryComponent |-> {"type", "depth", "index", "pos_label"},
     InteractionSummaryComponent |-> {"col", "depth", "type", "index", "pos_label"}]

Hidden == Plain("dict(display='none')")
Visible == Plain("{}")
no_update == Plain("dash.no_update")
EmptyFigure == Plain("go.Figure()")
NonePlot == Plain("None")
Unset == Plain("unset")

\* depth = None if depth is None else int(depth)
topx(depth) == IF depth = NoneVal THEN NoneVal ELSE int(depth)
topx_raises(depth) == IF depth = NoneVal THEN "" ELSE int_raises(depth)

\* ctx.triggered is empty on the initial invocation: trig = ""
update_shap_summary_graph_keep(in, trig) ==
    IF topx_raises(in.depth) # "" THEN Fault(topx_raises(in.depth))
    ELSE IF in.type = "'aggregate'"
    THEN Out(<<Acc("plot_importances", <<topx(in.depth), in.pos_label>>), no_update>>)
    ELSE IF in.type = "'detailed'"
    THEN Out(<<Acc("plot_importances_detailed",
                   <<topx(in.depth), in.pos_label, in.index>>), no_update>>)
    ELSE NoOp

update_shap_summary_graph(in, trig) ==
    IF topx_raises(in.depth) # "" THEN Fault(topx_raises(in.depth))
    ELSE IF in.type \notin SummaryTypes THEN NoOp
    ELSE LET plot == IF in.type = "'aggregate'"
                     THEN Acc("plot_importances", <<topx(in.depth), in.pos_label>>)
                     ELSE Acc("plot_importances_detailed",
                              <<topx(in.depth), in.pos_label, in.index>>)
             style_index_col == IF in.type = "'aggregate'" THEN Hidden ELSE Visible
         IN  IF trig = "" \/ trig = "type"
             THEN Out(<<plot, style_index_col>>)
             ELSE Out(<<plot, no_update>>)

update_interaction_scatter_graph(has, in, trig) ==
    IF ~has THEN Out(<<EmptyFigure, Hidden>>)
    ELSE IF in.col = NoneVal THEN NoOp
    ELSE IF topx_raises(in.depth) # "" THEN Fault(topx_raises(in.depth))
    ELSE LET plot == IF in.type = "'aggregate'"
                     THEN Acc("plot_interactions_importance",
                              <<in.col, topx(in.depth), in.pos_label>>)
                     ELSE IF in.type = "'detailed'"
                     THEN Acc("plot_interactions_detailed",
                              <<in.col, topx(in.depth), in.pos_label, in.index>>)
                     ELSE NonePlot
             style_index_col == IF in.type = "'aggregate'" THEN Hidden
                                ELSE IF in.type = "'detailed'" THEN Visible
                                ELSE no_update
         IN  IF trig = "" \/ trig = "type"
             THEN Out(<<plot, style_index_col>>)
             ELSE Out(<<plot, no_update>>)

SummaryHandler(cls, has, in, trig) ==
    IF cls = "ShapSummaryComponent"
    THEN update_shap_summary_graph(in, trig)
    ELSE update_interaction_scatter_graph(has, in, trig)

\* the runtime writes each returned value to its output, except no_update
OutputWritten(r, i) == r.kind = "return" /\ r.vals[i] # no_update
Rendered(shown, r) ==
    IF r.kind = "return"
    THEN [i \in DOMAIN shown |-> IF r.vals[i] = no_update THEN shown[i] ELSE r.vals[i]]
    ELSE shown

\* a point of the detailed graph carries a record, a bar of the aggregate
\* graph does not (its y is a feature name, not a float)
DetailedPlots == {"plot_importances_detailed", "plot_interactions_detailed"}
Points == {"17", "99"}

\* display_scatter_click_data: the record of the clicked point, or no-op
ShapSummary_display_scatter_click_data(detailed, point) ==
    IF detailed THEN Out(<<point>>) ELSE NoOp
InteractionSummary_display_scatter_click_data(detailed, point) ==
    IF detailed /\ index_exists(TheModel, point) THEN Out(<<point>>) ELSE NoOp
display_scatter_click_data(cls, detailed, point) ==
    IF cls = "ShapSummaryComponent"
    THEN ShapSummary_display_scatter_click_data(detailed, point)
    ELSE InteractionSummary_display_scatter_click_data(detailed, point)

\* the page is served: layout() renders the index column hidden
SummaryLayout(cls, has, in) ==
    /\ call = NoCall
    /\ cls = "ShapSummaryComponent" => has /\ in.col = "'age'"
    /\ call' = [op |-> cls, mode |-> "layout", drop |-> "none", in |-> in,
                has |-> has, trig |-> "", n |-> 0]
    /\ screen' = <<Unset, Hidden>>
    /\ ret' = NoRet
    /\ UNCHANGED <<nameVars, regVars>>
    /\ UNCHANGED connVars

\* the runtime invokes the handler once with no trigger
SummaryInitial ==
    /\ call.mode = "layout"
    /\ call' = [call EXCEPT !.mode = "page"]
    /\ ret' = SummaryHandler(call.op, call.has, call.in, "")
    /\ screen' = Rendered(screen, ret')
    /\ UNCHANGED <<nameVars, regVars>>
    /\ UNCHANGED connVars

\* a control changes and the runtime invokes the handler, triggered by it
SummaryChange(ch, v) ==
    /\ call.mode = "page"
    /\ call.n < MaxChanges
    /\ ch \in SummaryInputs[call.op]
    /\ v # call.in[ch]
    /\ [call.in EXCEPT ![ch] = v] \in SummaryControls
    /\ call' = [call EXCEPT !.in[ch] = v, !.trig = ch, !.n = @ + 1]
    /\ ret' = SummaryHandler(call.op, call.has, call'.in, ch)
    /\ screen' = Rendered(screen, ret')
    /\ UNCHANGED <<nameVars, regVars>>
    /\ UNCHANGED connVars

\* a click in the graph: the click handler writes the index control, whose
\* change triggers the graph handler
SummaryClick(point) ==
    /\ call.mode = "page"
    /\ call.n < MaxChanges
    /\ LET r == display_scatter_click_data(call.op, screen[1].acc \in DetailedPlots, point)
       IN  /\ r.kind = "return"
           /\ r.vals[1] # call.in.index
           /\ call' = [call EXCEPT !.in.index = r.vals[1], !.trig = "index", !.n = @ + 1]
    /\ ret' = SummaryHandler(call.op, call.has, call'.in, "index")
    /\ screen' = Rendered(screen, ret')
    /\ UNCHANGED <<nameVars, regVars>>
    /\ UNCHANGED connVars

SummaryValues == {NoneVal, "'3'", "17", "'age'", "'fare'"} \cup SummaryTypes \cup Labels

NextSummary ==
    \/ \E cls \in SummaryClasses, has \in BOOLEAN, in \in SummaryControls :
           SummaryLayout(cls, has, in)
    \/ SummaryInitial
    \/ \E ch \in {"type", "depth", "index", "pos_label", "col"}, v \in SummaryValues :
           SummaryChange(ch, v)
    \/ \E point \in Points : SummaryClick(point)

SpecSummary == InitNames /\ [][NextSummary]_vars

\* C22: an invocation of a summary graph handler triggered by the type
\* control, or by nothing (the initial one), writes the figure and the style
\* of the index column; one triggered by any other control writes the figure
\* only and leaves the style as rendered
HandlerRan == call'.mode = "page" /\ call' # call
C22_TypeTriggerWritesBoth ==
    [][HandlerRan =>
          IF call'.trig \in {"", "type"}
          THEN OutputWritten(ret', 1) /\ OutputWritten(ret', 2)
          ELSE OutputWritten(ret', 1) /\ ~OutputWritten(ret', 2) /\ screen'[2] = screen[2]]_vars

\* C29: once the initial invocation has run, the index column of a
\* ShapSummaryComponent is visible exactly when the type control holds
\* 'detailed', and hidden when it holds 'aggregate'
C29_IndexColumnFollowsType ==
    (call.op = "ShapSummaryComponent" /\ call.mode = "page") =>
        /\ (screen[2] = Visible) <=> (call.in.type = "'detailed'")
        /\ (call.in.type = "'aggregate'") => (screen[2] = Hidden)
C29_Witness ==
    /\ call.op = "ShapSummaryComponent"
    /\ call.mode = "page"
    /\ call.n = MaxChanges
    /\ call.trig = "index"
    /\ call.in.type = "'detailed'"
    /\ call.in.index = "99"
    /\ screen[2] = Visible

\* ------------------------------------------------- interaction components
cat_cols == {"'sex'"}
InteractionControls ==
    [col : {NoneVal, "'age'", "'sex'"}, interact_col : {NoneVal, "'age'", "'sex'"},
     index : {NoneVal, "17"}, pos_label : Labels, type : SummaryTypes,
     depth : {NoneVal, "'3'"}, trig : {"", "type", "depth"},
     click : {"none", "17", "99"}]
InteractionRest ==
    [col |-> "'age'", interact_col |-> "'sex'", index |-> NoneVal,
     pos_label |-> DefaultLabel, type |-> "'aggregate'", depth |-> NoneVal,
     trig |-> "", click |-> "none"]

NotCalculated == Plain("html.Div('Valores de interacao SHAP nao calculados.')")
SelectBoth == Plain("html.Div('Por favor, selecione a Caracteristica e a Interacao.')")
NoOptions == Plain("[]")

InteractionSummary_to_html(has, a) ==
    IF ~has THEN Out(<<NotCalculated>>)
    ELSE IF a.type = "'aggregate'"
    THEN Out(<<Acc("plot_interactions_importance", <<a.col, a.depth, a.pos_label>>)>>)
    ELSE Out(<<Acc("plot_interactions_detailed",
                   <<a.col, a.depth, a.pos_label, a.index>>)>>)

InteractionDependence_to_html(has, a) ==
    IF ~has THEN Out(<<NotCalculated>>)
    ELSE IF a.col = NoneVal \/ a.interact_col = NoneVal THEN Out(<<SelectBoth>>)
    ELSE Out(<<Acc("plot_interaction", <<a.interact_col, a.col, a.index, a.pos_label>>),
               Acc("plot_interaction", <<a.col, a.interact_col, a.index, a.pos_label>>)>>)

update_interaction_dependence_interact_col(has, in) ==
    IF in.col = NoneVal THEN NoOp
    ELSE IF ~has THEN Out(<<NoOptions>>)
    ELSE Out(<<Acc("top_shap_interactions", <<in.col, in.pos_label>>)>>)

cat_style(col) == IF col \in cat_cols THEN Visible ELSE Hidden

update_top_dependence_graph_unguarded(has, in) ==
    IF in.col # NoneVal /\ in.interact_col # NoneVal
    THEN Out(<<Acc("plot_interaction", <<in.interact_col, in.col, in.index, in.pos_label>>),
               cat_style(in.interact_col), cat_style(in.interact_col)>>)
    ELSE NoOp

update_top_dependence_graph(has, in) ==
    IF ~has THEN Out(<<EmptyFigure, Hidden, Hidden>>)
    ELSE IF in.col # NoneVal /\ in.interact_col # NoneVal
    THEN Out(<<Acc("plot_interaction", <<in.interact_col, in.col, in.index, in.pos_label>>),
               cat_style(in.interact_col), cat_style(in.interact_col)>>)
    ELSE NoOp

update_bottom_dependence_graph(has, in) ==
    IF ~has THEN Out(<<EmptyFigure, Hidden, Hidden>>)
    ELSE IF in.col # NoneVal /\ in.interact_col # NoneVal
    THEN Out(<<Acc("plot_interaction", <<in.col, in.interact_col, in.index, in.pos_label>>),
               cat_style(in.col), cat_style(in.col)>>)
    ELSE NoOp

\* the handlers and to_html of the two components, and the controls each reads
InteractionOps ==
    [summary_graph |-> {"col", "depth", "type", "index", "pos_label", "trig"},
     summary_click |-> {"click"},
     summary_to_html |-> {"col", "depth", "type", "index", "pos_label"},
     dependence_options |-> {"col", "pos_label"},
     dependence_top |-> {"col", "interact_col", "index", "pos_label"},
     dependence_bottom |-> {"col", "interact_col", "index", "pos_label"},
     dependence_to_html |-> {"col", "interact_col", "index", "pos_label"}]

InteractionResult(op, has, in) ==
    CASE op = "summary_graph" -> update_interaction_scatter_graph(has, in, in.trig)
      [] op = "summary_click" ->
             InteractionSummary_display_scatter_click_data(in.click # "none", in.click)
      [] op = "summary_to_html" -> InteractionSummary_to_html(has, in)
      [] op = "dependence_options" -> update_interaction_dependence_interact_col(has, in)
      [] op = "dependence_top" -> update_top_dependence_graph(has, in)
      [] op = "dependence_bottom" -> update_bottom_dependence_graph(has, in)
      [] op = "dependence_to_html" -> InteractionDependence_to_html(has, in)

\* the handler or to_html is invoked with the current values of its controls;
\* a click needs a point, which only a figure drawn from the model has
InteractionInvoke(op, has, in) ==
    /\ call = NoCall
    /\ \A f \in DOMAIN InteractionRest \ InteractionOps[op] : in[f] = InteractionRest[f]
    /\ op = "summary_click" => has /\ in.click # "none"
    /\ call' = [op |-> op, mode |-> "invoked", drop |-> "none", in |-> in, has |-> has]
    /\ ret' = NoRet
    /\ UNCHANGED <<screen, nameVars, regVars>>
    /\ UNCHANGED connVars

InteractionRespond ==
    /\ call.mode = "invoked"
    /\ call' = [call EXCEPT !.mode = "done"]
    /\ ret' = InteractionResult(call.op, call.has, call.in)
    /\ UNCHANGED <<screen, nameVars, regVars>>
    /\ UNCHANGED connVars

NextInteraction ==
    \/ \E op \in DOMAIN InteractionOps, has \in BOOLEAN, in \in InteractionControls :
           InteractionInvoke(op, has, in)
    \/ InteractionRespond

SpecInteraction == InitNames /\ [][NextInteraction]_vars

InteractionAccessors ==
    {"plot_interactions_importance", "plot_interactions_detailed",
     "plot_interaction", "top_shap_interactions"}
CallsInteractionAccessor(r) ==
    \E i \in DOMAIN r.vals : r.vals[i].acc \in InteractionAccessors
Placeholders ==
    {Out(<<EmptyFigure, Hidden>>), Out(<<EmptyFigure, Hidden, Hidden>>),
     Out(<<NoOptions>>), Out(<<NotCalculated>>)}
WithoutValues == call.mode = "done" /\ ~call.has

\* C23 as stated: on a model without interaction values every handler and
\* every to_html returns a placeholder, whatever the controls hold
C23_Orig_AlwaysPlaceholder ==
    WithoutValues => ret \in Placeholders

\* C23: on a model without interaction values no handler and no to_html of
\* the two components calls an interaction accessor or raises; each returns a
\* placeholder, except that the options handler signals no-op when the
\* feature control holds None
C23_NoInteractionAccessWithoutValues ==
    WithoutValues =>
        /\ ~CallsInteractionAccessor(ret)
        /\ ret.kind # "raise" /\ ret.kind # "none"
        /\ ret \notin Placeholders =>
               /\ ret = NoOp
               /\ call.op = "dependence_options"
               /\ call.in.col = NoneVal
C23_Witness ==
    /\ WithoutValues
    /\ call.op = "dependence_top"
    /\ call.in.col = "'age'" /\ call.in.interact_col = "'sex'"
    /\ ret = Out(<<EmptyFigure, Hidden, Hidden>>)

\* ------------------------------------------------- layout
MaxLayouts == 3     \* calls of layout() on the constructed components

\* objects are told apart by the order of their creation; 0 is no object
LayoutClasses == {"PredictionSummaryComponent", "ShapSummaryComponent"}
LayoutNames == {"A", "B"}

\* __init__: ShapSummaryComponent makes its IndexSelector, the
\* PredictionSummaryComponent does not
LayoutConstruct(cls, name) ==
    /\ Len(insts) < MaxInsts
    /\ \A i \in DOMAIN insts : insts[i].name # name
    /\ insts' = Append(insts,
           [cls |-> cls, name |-> name,
            index_selector |-> IF cls = "ShapSummaryComponent"
                               THEN hist.objs + 1 ELSE 0])
    /\ hist' = [hist EXCEPT !.objs = IF cls = "ShapSummaryComponent" THEN @ + 1 ELSE @]
    /\ UNCHANGED <<cache, calls, pc, recv>>
    /\ UNCHANGED <<nameVars, callVars>>
    /\ UNCHANGED connVars

\* the channel ids of the tree layout() returns
PredictionSummary_tree(name) ==
    {<<"modelprediction-index-", name>>, <<"pos-label-", name>>,
     <<"modelprediction-percentile-", name>>, <<"modelprediction-", name>>}
ShapSummary_tree(name) ==
    {<<"shap-summary-type-", name>>, <<"shap-summary-depth-", name>>,
     <<"shap-summary-index-", name>>, <<"shap-summary-index-col-", name>>,
     <<"pos-label-", name>>, <<"shap-summary-graph-", name>>}

ShapSummary_layout(self, objs) ==
    [self |-> self, objs |-> objs, tree |-> ShapSummary_tree(self.name)]

\* PredictionSummaryComponent.layout: self.index_selector = IndexSelector(...)
PredictionSummary_layout(self, objs) ==
    [self |-> [self EXCEPT !.index_selector = objs + 1], objs |-> objs + 1,
     tree |-> PredictionSummary_tree(self.name)]

layout(self, objs) ==
    IF self.cls = "PredictionSummaryComponent"
    THEN PredictionSummary_layout(self, objs)
    ELSE ShapSummary_layout(self, objs)

Layout(i) ==
    /\ hist.n < MaxLayouts
    /\ LET r == layout(insts[i], hist.objs)
       IN  /\ insts' = [insts EXCEPT ![i] = r.self]
           /\ hist' = [hist EXCEPT !.objs = r.objs, !.n = @ + 1, !.last = i]
           /\ screen' = [screen EXCEPT ![i] = r.tree]
    /\ UNCHANGED <<cache, calls, pc, recv>>
    /\ UNCHANGED <<nameVars, call, ret>>
    /\ UNCHANGED connVars

InitLayout ==
    /\ ConnIdle
    /\ comps = <<>> /\ registry = {} /\ cand = NoCand
    /\ call = NoCall /\ ret = NoRet
    /\ screen = [i \in 1..(MaxInsts + 1) |-> {}]
    /\ insts = <<>>
    /\ cache = {} /\ calls = <<>> /\ pc = <<>> /\ recv = <<>>
    /\ hist = [objs |-> 0, n |-> 0, last |-> 0]

NextLayout ==
    \/ \E cls \in LayoutClasses, name \in LayoutNames : LayoutConstruct(cls, name)
    \/ \E i \in DOMAIN insts : Layout(i)

SpecLayout == InitLayout /\ [][NextLayout]_vars

\* C24: a call of layout() leaves every attribute of the component the
\* object it was, and yields the tree, with the channel ids, of the call
\* before it
LayoutCalled == hist'.n = hist.n + 1
C24_LayoutHasNoSideEffects ==
    [][LayoutCalled =>
          /\ insts' = insts
          /\ screen[hist'.last] # {} => screen'[hist'.last] = screen[hist'.last]]_vars

\* ------------------------------------------------- the model's dictionaries
\* the lists of the model are shared objects: a list handed out by
\* dict.get is the model's own list, and append changes it in place
cat_dict == [pclass |-> <<"1", "2">>]
onehot_dict == [sex |-> <<"sex_female", "sex_male">>, deck |-> <<"deck_A", "deck_B">>]
NotEncoded == {NoneVal, "NOT_ENCODED"}
columns_ranked_by_shap == <<"sex", "age", "pclass", "deck">>
merged_cols == <<"age", "deck", "pclass", "sex">>
FeatureInputNames == {"A", "B", "C"}

\* _generate_dash_input(col, ...): the options of the input of col, and the
\* model after the call
generate_dash_input(col, model) ==
    IF col \in DOMAIN model.cat_dict
    THEN [model |-> model, options |-> model.cat_dict[col]]
    ELSE IF col \in DOMAIN model.onehot_dict
    THEN LET not_encoded_val == model.onehot_notencoded[col]
             col_values == IF not_encoded_val # NoneVal
                           THEN Append(model.onehot_dict[col], not_encoded_val)
                           ELSE model.onehot_dict[col]
         IN  [model |-> [model EXCEPT !.onehot_dict[col] = col_values],
              options |-> col_values]
    ELSE [model |-> model, options |-> <<>>]

\* the loop of __init__ over self._input_features
RECURSIVE generate_inputs(_, _, _)
generate_inputs(features, model, inputs) ==
    IF features = <<>> THEN [model |-> model, inputs |-> inputs]
    ELSE LET r == generate_dash_input(Head(features), model)
         IN  generate_inputs(Tail(features), r.model,
                             Append(inputs, [col |-> Head(features), options |-> r.options]))

input_features(sort_features) ==
    IF sort_features = "shap" THEN columns_ranked_by_shap ELSE merged_cols

FeatureInputConstruct(name, sort_features) ==
    /\ Len(insts) < MaxInsts
    /\ \A i \in DOMAIN insts : insts[i].name # name
    /\ LET r == generate_inputs(input_features(sort_features), hist.model, <<>>)
       IN  /\ insts' = Append(insts, [name |-> name, sort_features |-> sort_features,
                                      inputs |-> r.inputs, laid |-> FALSE])
           /\ hist' = [hist EXCEPT !.model = r.model]
    /\ UNCHANGED <<cache, calls, pc, recv>>
    /\ UNCHANGED <<nameVars, callVars>>
    /\ UNCHANGED connVars

\* layout() arranges self._feature_inputs in columns
FeatureInputLayout(i) ==
    /\ ~insts[i].laid
    /\ insts' = [insts EXCEPT ![i].laid = TRUE]
    /\ UNCHANGED <<hist, cache, calls, pc, recv>>
    /\ UNCHANGED <<nameVars, callVars>>
    /\ UNCHANGED connVars

InitOnehot ==
    /\ ConnIdle
    /\ comps = <<>> /\ registry = {} /\ cand = NoCand
    /\ call = NoCall /\ ret = NoRet /\ screen = <<>>
    /\ insts = <<>>
    /\ cache = {} /\ calls = <<>> /\ pc = <<>> /\ recv = <<>>
    /\ \E ne \in [DOMAIN onehot_dict -> NotEncoded] :
           hist = [model |-> [cat_dict |-> cat_dict, onehot_dict |-> onehot_dict,
                              onehot_notencoded |-> ne]]

NextOnehot ==
    \/ \E name \in FeatureInputNames, sort_features \in {"shap", "alphabet"} :
           FeatureInputConstruct(name, sort_features)
    \/ \E i \in DOMAIN insts : FeatureInputLayout(i)

SpecOnehot == InitOnehot /\ [][NextOnehot]_vars

\* C25: constructing and laying out FeatureInputComponents leaves the
\* dictionaries of the model, and the lists they hold, as they were, so that
\* every construction offers the same options for a column
C25_ModelNeverMutated ==
    [][/\ hist'.model = hist.model
       /\ \A i \in DOMAIN insts', j \in DOMAIN insts', k \in 1..4, l \in 1..4 :
              insts'[i].inputs[k].col = insts'[j].inputs[l].col
                  => insts'[i].inputs[k].options = insts'[j].inputs[l].options]_vars

\* ------------------------------------------------- summary-dependence connectors
\* __init__ of both connectors stores the two names and nothing else: it does
\* not run the base __init__, so the instance has no explainer attribute
ShapSummaryDependenceConnector(sum_name, dep_name) ==
    [cls |-> "ShapSummaryDependenceConnector", sum_name |-> sum_name, dep_name |-> dep_name]
InteractionSummaryDependenceConnector(sum_name, dep_name) ==
    [cls |-> "InteractionSummaryDependenceConnector", sum_name |-> sum_name,
     dep_name |-> dep_name]
\* self.explainer raises AttributeError on an instance without the attribute
HasExplainer(self) == "explainer" \in DOMAIN self

columns == {"'age'", "'sex'"}
NoUpdateVal == "dash.no_update"

\* clickData of the summary graph: nothing, a bar of the aggregate graph (y is
\* the feature) or a point of the detailed graph (text holds record and feature)
NoClick == [y |-> "none", index |-> NoneVal, col |-> NoneVal]
ClickData ==
    {NoClick}
    \cup [y : {"str"}, index : {NoneVal}, col : columns]
    \cup [y : {"float"}, index : {"17", "99"}, col : columns]

\* the try blocks catch every Exception, the AttributeError included
ShapSummaryDependence_display_scatter_click_data(self, clickdata) ==
    IF clickdata.y = "float"
    THEN IF HasExplainer(self) /\ index_exists(TheModel, clickdata.index)
         THEN Out(<<clickdata.index, clickdata.col>>) ELSE NoOp
    ELSE IF clickdata.y = "str"
    THEN IF HasExplainer(self) /\ clickdata.col \in columns
         THEN Out(<<NoUpdateVal, clickdata.col>>) ELSE NoOp
    ELSE NoOp

update_interact_col_highlight(self, col, clickdata) ==
    LET valid_point == /\ clickdata.y = "float"
                       /\ HasExplainer(self)
                       /\ index_exists(TheModel, clickdata.index)
                       /\ clickdata.col \in columns
        valid_bar == /\ clickdata.y = "str"
                     /\ HasExplainer(self)
                     /\ clickdata.col \in columns
        index_update == IF valid_point THEN clickdata.index ELSE NoUpdateVal
        interact_col_update == IF valid_point \/ valid_bar THEN clickdata.col ELSE NoUpdateVal
    IN  Out(<<col, index_update, interact_col_update>>)

\* the channels of the dependence component the connector writes, in the
\* order of the returned values: screen holds their values
ConnectorOutputs(self) ==
    IF self.cls = "ShapSummaryDependenceConnector"
    THEN <<"index", "col">> ELSE <<"col", "index", "interact_col">>
ConnectorResult(self, col, clickdata) ==
    IF self.cls = "ShapSummaryDependenceConnector"
    THEN ShapSummaryDependence_display_scatter_click_data(self, clickdata)
    ELSE update_interact_col_highlight(self, col, clickdata)
Assigned(self, shown, r) ==
    [ch \in DOMAIN shown |->
        IF r.kind = "return"
              /\ \E i \in DOMAIN r.vals :
                     ConnectorOutputs(self)[i] = ch /\ r.vals[i] # NoUpdateVal
        THEN LET i == CHOOSE i \in DOMAIN r.vals : ConnectorOutputs(self)[i] = ch
             IN  r.vals[i]
        ELSE shown[ch]]

\* the dashboard is built: the two components and their connector
Wire(self, col, dep) ==
    /\ call = NoCall
    /\ self.cls = "ShapSummaryDependenceConnector" => col = NoneVal
    /\ self.cls = "InteractionSummaryDependenceConnector" => col # NoneVal
    /\ call' = [op |-> "wire", mode |-> "wired", drop |-> "none", self |-> self,
                col |-> col, clickData |-> NoClick]
    /\ screen' = dep
    /\ ret' = NoRet
    /\ UNCHANGED <<nameVars, regVars>>
    /\ UNCHANGED connVars

\* the user clicks in the summary graph: clickData changes and triggers the
\* handler of the connector
ClickSummary(clickdata) ==
    /\ call.mode = "wired"
    /\ clickdata # NoClick
    /\ clickdata # call.clickData
    /\ call' = [call EXCEPT !.op = "click", !.clickData = clickdata]
    /\ ret' = ConnectorResult(call.self, call.col, clickdata)
    /\ screen' = Assigned(call.self, screen, ret')
    /\ UNCHANGED <<nameVars, regVars>>
    /\ UNCHANGED connVars

\* the user selects a feature in the interaction summary: the handler is
\* invoked with the new feature and the clickData the graph still holds
SelectSummaryCol(col) ==
    /\ call.mode = "wired"
    /\ call.self.cls = "InteractionSummaryDependenceConnector"
    /\ col # call.col
    /\ call' = [call EXCEPT !.op = "select", !.col = col]
    /\ ret' = ConnectorResult(call.self, col, call.clickData)
    /\ screen' = Assigned(call.self, screen, ret')
    /\ UNCHANGED <<nameVars, regVars>>
    /\ UNCHANGED connVars

DependenceChannels ==
    [index : {NoneVal, "42"}, col : columns, interact_col : {NoneVal} \cup columns]

NextWired ==
    \/ \E dep \in DependenceChannels, col \in {NoneVal} \cup columns :
           \/ Wire(ShapSummaryDependenceConnector("A", "B"), col, dep)
           \/ Wire(InteractionSummaryDependenceConnector("A", "B"), col, dep)
    \/ \E clickdata \in ClickData : ClickSummary(clickdata)
    \/ \E col \in columns : SelectSummaryCol(col)

SpecWired == InitNames /\ [][NextWired]_vars

Clicked(cls) == call'.op = "click" /\ call'.self.cls = cls /\ call' # call

\* C26: with a ShapSummaryDependenceConnector, a click on a feature of the
\* aggregate graph sets the col channel of the dependence component to the
\* feature and leaves its index channel, and a click on a point of the
\* detailed graph whose record exists sets its index and col channels
C26_SummaryClickSetsDependence ==
    [][Clicked("ShapSummaryDependenceConnector") =>
          LET c == call'.clickData
          IN  /\ c.y = "str" => screen'.col = c.col /\ screen'.index = screen.index
              /\ (c.y = "float" /\ index_exists(TheModel, c.index)) =>
                     screen'.index = c.index /\ screen'.col = c.col]_vars

\* C27: with an InteractionSummaryDependenceConnector, selecting a feature
\* in the summary sets the col channel of the dependence component, and a
\* click on an interaction feature of the summary graph sets its interact-col
\* channel (and its index channel, for a point whose record exists)
C27_InteractionClickSetsDependence ==
    [][/\ (call'.op = "select" /\ call' # call) => screen'.col = call'.col
       /\ Clicked("InteractionSummaryDependenceConnector") =>
              LET c == call'.clickData
              IN  /\ c.y = "str" => screen'.interact_col = c.col
                  /\ (c.y = "float" /\ index_exists(TheModel, c.index)) =>
                         screen'.interact_col = c.col /\ screen'.index = c.index]_vars

\* ------------------------------------------------- writers of a channel
MaxWirings == 2     \* connectors added to the dashboard

WriterNames == {"A", "B"}

\* per component class: the prefix of its index channel (index_name) and,
\* per handler of component_callbacks, the (prefix, attribute) of its Outputs
WriterClasses ==
    [ShapSummaryComponent |->
        [index_name |-> "shap-summary-index-",
         handlers |-> {{<<"shap-summary-index-", "value">>},
                       {<<"shap-summary-graph-", "figure">>,
                        <<"shap-summary-index-col-", "style">>}}],
     InteractionSummaryComponent |->
        [index_name |-> "interaction-summary-index-",
         handlers |-> {{<<"interaction-summary-index-", "value">>},
                       {<<"interaction-summary-graph-", "figure">>,
                        <<"interaction-summary-index-col-", "style">>}}],
     RegressionRandomIndexComponent |->
        [index_name |-> "random-index-reg-index-",
         handlers |-> {{<<"random-index-reg-index-", "value">>},
                       {<<"random-index-reg-pred-slider-div-", "style">>,
                        <<"random-index-reg-y-slider-div-", "style">>}}],
     ShapDependenceComponent |->
        [index_name |-> "shap-dependence-index-",
         handlers |-> {{<<"shap-dependence-graph-", "figure">>},
                       {<<"shap-dependence-color-col-", "options">>,
                        <<"shap-dependence-color-col-", "value">>,
                        <<"shap-dependence-categories-div1-", "style">>,
                        <<"shap-dependence-categories-div2-", "style">>}}],
     ShapContributionsTableComponent |->
        [index_name |-> "contributions-table-index-",
         handlers |-> {{<<"contributions-table-", "children">>}}]]

\* Output(prefix + name, attribute)
OutputOf(p, name) == <<p[1], name, p[2]>>

\* component_callbacks of a component: one handler per callback
ComponentHandlers(c) ==
    {[owner |-> c.name, outs |-> {OutputOf(p, c.name) : p \in h}] :
        h \in WriterClasses[c.cls].handlers}

\* IndexConnector.component_callbacks: one handler, an Output for the index
\* channel of every output component
IndexConnectorHandler(n, outputs) ==
    [owner |-> n,
     outs |-> {<<WriterClasses[comps[o].cls].index_name, comps[o].name, "value">> :
                  o \in outputs}]

\* ShapSummaryDependenceConnector.component_callbacks
SummaryDependenceHandler(n, dep_name) ==
    [owner |-> n,
     outs |-> {<<"shap-dependence-index-", dep_name, "value">>,
               <<"shap-dependence-col-", dep_name, "value">>}]

AddWriterComponent(cls, name) ==
    /\ Len(comps) < MaxComps
    /\ hist.n = 0
    /\ \A i \in DOMAIN comps : comps[i].name # name
    /\ comps' = Append(comps, [cls |-> cls, name |-> name])
    /\ registry' = registry \cup ComponentHandlers([cls |-> cls, name |-> name])
    /\ UNCHANGED <<cand, callVars, regVars>>
    /\ UNCHANGED connVars

WiringNames == <<"connector-1", "connector-2", "connector-3">>

AddIndexConnector(input, outputs) ==
    /\ hist.n < MaxWirings
    /\ outputs # {}
    /\ input \notin outputs
    /\ IndexConnectorHandler(WiringNames[hist.n + 1], outputs).outs
           \notin {h.outs : h \in {g \in registry : g.owner \notin WriterNames}}
    /\ registry' = registry \cup {IndexConnectorHandler(WiringNames[hist.n + 1], outputs)}
    /\ hist' = [hist EXCEPT !.n = @ + 1]
    /\ UNCHANGED <<comps, cand, callVars, insts, cache, calls, pc, recv>>
    /\ UNCHANGED connVars

AddSummaryDependenceConnector(sum, dep) ==
    /\ hist.n < MaxWirings
    /\ comps[sum].cls = "ShapSummaryComponent"
    /\ comps[dep].cls = "ShapDependenceComponent"
    /\ SummaryDependenceHandler(WiringNames[hist.n + 1], comps[dep].name).outs
           \notin {h.outs : h \in registry}
    /\ registry' = registry
           \cup {SummaryDependenceHandler(WiringNames[hist.n + 1], comps[dep].name)}
    /\ hist' = [hist EXCEPT !.n = @ + 1]
    /\ UNCHANGED <<comps, cand, callVars, insts, cache, calls, pc, recv>>
    /\ UNCHANGED connVars

InitWriters ==
    /\ ConnIdle
    /\ comps = <<>> /\ registry = {} /\ cand = NoCand
    /\ call = NoCall /\ ret = NoRet /\ screen = <<>>
    /\ insts = <<>>
    /\ cache = {} /\ calls = <<>> /\ pc = <<>> /\ recv = <<>>
    /\ hist = [n |-> 0]

NextWriters ==
    \/ \E cls \in DOMAIN WriterClasses, name \in WriterNames : AddWriterComponent(cls, name)
    \/ \E input \in DOMAIN comps, outputs \in SUBSET DOMAIN comps :
           AddIndexConnector(input, outputs)
    \/ \E sum \in DOMAIN comps, dep \in DOMAIN comps :
           AddSummaryDependenceConnector(sum, dep)

SpecWriters == InitWriters /\ [][NextWriters]_vars

\* C28: no (channel id, attribute) pair is an Output of two registered
\* handlers, whatever components and connectors the dashboard is wired from
C28_OneWriterPerChannel ==
    \A g \in registry, h \in registry : g # h => g.outs \cap h.outs = {}

\* ------------------------------------------------- residual sliders
MaxMoves == 3       \* slider moves by the user after the page has loaded

\* the records of a regression model: prediction, observed value and
\* residual (observed - prediction)
Records == {[pred |-> 1, y |-> -1], [pred |-> 2, y |-> 2], [pred |-> 3, y |-> 6]}
residual(r) == r.y - r.pred
abs(x) == IF x < 0 THEN 0 - x ELSE x
min_of(S) == CHOOSE x \in S : \A y \in S : x <= y
max_of(S) == CHOOSE x \in S : \A y \in S : y <= x
max2(a, b) == IF a >= b THEN a ELSE b
min2(a, b) == IF a <= b THEN a ELSE b

PredSliderValues == 0..4
YSliderValues == {-1, 2, 6, 7}
Ranges(S) == {rg \in S \X S : rg[1] <= rg[2]}

\* [max(lo, r[0]), min(hi, r[1])], the upper end raised to the lower one
\* when they cross
adjusted_range(lo, hi, r) ==
    LET new == <<max2(lo, r[1]), min2(hi, r[2])>>
    IN  IF new[1] > new[2] THEN <<new[1], new[1]>> ELSE new

residual_slider_limits(pred_range, y_range, preds_or_y, residuals_range, abs_residuals_range) ==
    LET mask == IF preds_or_y = "preds"
                THEN {r \in Records : r.pred >= pred_range[1] /\ r.pred <= pred_range[2]}
                ELSE {r \in Records : r.y >= y_range[1] /\ r.y <= y_range[2]}
        res == {residual(r) : r \in mask}
        abs_res == {abs(residual(r)) : r \in mask}
    IN  IF preds_or_y \notin {"preds", "y"} THEN NoOp
        ELSE IF mask = {}
        THEN Out(<<0, 1, <<0, 1>>, "marks", 0, 1, <<0, 1>>, "marks">>)
        ELSE Out(<<min_of(res), max_of(res),
                   adjusted_range(min_of(res), max_of(res), residuals_range), "marks",
                   min_of(abs_res), max_of(abs_res),
                   adjusted_range(min_of(abs_res), max_of(abs_res), abs_residuals_range),
                   "marks">>)

\* the sliders as rendered: limits and value of both residual sliders
Sliders(r) ==
    [residual |-> [min |-> r.vals[1], max |-> r.vals[2], value |-> r.vals[3]],
     abs_residual |-> [min |-> r.vals[5], max |-> r.vals[6], value |-> r.vals[7]]]

SliderHandler(c, shown) ==
    residual_slider_limits(c.pred_range, c.y_range, c.preds_or_y,
                           shown.residual.value, shown.abs_residual.value)

\* layout(): every slider spans the whole data
SliderLayout ==
    /\ call = NoCall
    /\ call' = [op |-> "layout", mode |-> "sliders", drop |-> "none",
                pred_range |-> <<1, 3>>, y_range |-> <<-1, 6>>, preds_or_y |-> "preds",
                n |-> 0]
    /\ screen' = [residual |-> [min |-> -2, max |-> 3, value |-> <<-2, 3>>],
                  abs_residual |-> [min |-> 0, max |-> 3, value |-> <<0, 3>>]]
    /\ ret' = NoRet
    /\ UNCHANGED <<nameVars, regVars>>
    /\ UNCHANGED connVars

\* the prediction or the observed slider changes: both are Inputs of the
\* handler, which reads the residual sliders as State and writes them
SetRangeSlider(which, rg) ==
    /\ call.mode = "sliders"
    /\ \/ which = "pred_range" /\ rg \in Ranges(PredSliderValues)
       \/ which = "y_range" /\ rg \in Ranges(YSliderValues)
    /\ call[which] # rg
    /\ call.n < MaxMoves
    /\ call' = [call EXCEPT ![which] = rg, !.op = "handler", !.n = @ + 1]
    /\ ret' = SliderHandler(call', screen)
    /\ screen' = IF ret'.kind = "return" THEN Sliders(ret') ELSE screen
    /\ UNCHANGED <<nameVars, regVars>>
    /\ UNCHANGED connVars

\* the preds / y selector is a State of the handler: changing it invokes nothing
SetPredsOrY(v) ==
    /\ call.mode = "sliders"
    /\ call.preds_or_y # v
    /\ call.n < MaxMoves
    /\ call' = [call EXCEPT !.preds_or_y = v, !.op = "select", !.n = @ + 1]
    /\ UNCHANGED <<ret, screen, nameVars, regVars>>
    /\ UNCHANGED connVars

\* the user drags a residual slider within its limits
DragResidualSlider(which, rg) ==
    /\ call.mode = "sliders"
    /\ rg \in Ranges(screen[which].min .. screen[which].max)
    /\ screen[which].value # rg
    /\ call.n < MaxMoves
    /\ screen' = [screen EXCEPT ![which].value = rg]
    /\ call' = [call EXCEPT !.op = "drag", !.n = @ + 1]
    /\ UNCHANGED <<ret, nameVars, regVars>>
    /\ UNCHANGED connVars

NextSliders ==
    \/ SliderLayout
    \/ \E which \in {"pred_range", "y_range"},
          rg \in Ranges(PredSliderValues \cup YSliderValues) : SetRangeSlider(which, rg)
    \/ \E v \in {"preds", "y"} : SetPredsOrY(v)
    \/ \E which \in {"residual", "abs_residual"}, rg \in Ranges(-2..3) :
           DragResidualSlider(which, rg)

SpecSliders == InitNames /\ [][NextSliders]_vars

InLimits(lo, hi, rg) == lo <= rg[1] /\ rg[1] <= rg[2] /\ rg[2] <= hi

\* C30: the value range the handler returns for the residual slider and for
\* the absolute-residual slider lies within the limits returned with it
C30_RangesWithinLimits ==
    ret.kind = "return" =>
        /\ InLimits(ret.vals[1], ret.vals[2], ret.vals[3])
        /\ InLimits(ret.vals[5], ret.vals[6], ret.vals[7])

\* ------------------------------------------------- slider containers
MaxToggles == 3     \* changes of the two selectors after the page has loaded

StyleNone == Plain("None")

update_reg_hidden_div_pred_sliders(preds_or_y) ==
    IF preds_or_y = "preds" THEN Out(<<StyleNone, Hidden>>)
    ELSE IF preds_or_y = "y" THEN Out(<<Hidden, StyleNone>>)
    ELSE NoOp

update_reg_hidden_div_residual_sliders_swapped(abs_residuals_toggle) ==
    IF abs_residuals_toggle = "absolute" THEN Out(<<StyleNone, Hidden>>)
    ELSE IF abs_residuals_toggle = "relative" THEN Out(<<Hidden, StyleNone>>)
    ELSE NoOp

update_reg_hidden_div_residual_sliders(abs_residuals_toggle) ==
    IF abs_residuals_toggle = "absolute" THEN Out(<<Hidden, StyleNone>>)
    ELSE IF abs_residuals_toggle = "relative" THEN Out(<<StyleNone, Hidden>>)
    ELSE NoOp

\* the runtime writes the two styles a handler returns to its two containers
Restyled(shown, first, second, r) ==
    IF r.kind = "return"
    THEN [shown EXCEPT ![first] = r.vals[1], ![second] = r.vals[2]]
    ELSE shown

\* the RegressionRandomIndexComponents of the dashboard, by name
ContainerNames == {"A", "B"}

\* __init__ and layout() of each component: a model without observed values
\* forces "preds"; each container is styled from pred_or_y and abs_residuals
ContainersLayout(pred_or_y, abs_residuals, y_missing) ==
    /\ call = NoCall
    /\ LET p == [c \in ContainerNames |-> IF y_missing THEN "preds" ELSE pred_or_y[c]]
       IN  /\ call' = [op |-> "layout", mode |-> "containers", drop |-> "none",
                       preds_or_y |-> p,
                       abs_residual |-> [c \in ContainerNames |->
                           IF abs_residuals[c] THEN "absolute" ELSE "relative"],
                       y_missing |-> y_missing,
                       pending |-> ContainerNames \X {"pred", "residual"}, n |-> 0]
           /\ screen' = [c \in ContainerNames |->
                  [pred |-> IF p[c] = "preds" THEN StyleNone ELSE Hidden,
                   y |-> IF p[c] = "y" THEN StyleNone ELSE Hidden,
                   residual |-> IF ~abs_residuals[c] THEN StyleNone ELSE Hidden,
                   abs_residual |-> IF abs_residuals[c] THEN StyleNone ELSE Hidden]]
    /\ ret' = NoRet
    /\ UNCHANGED <<nameVars, regVars>>
    /\ UNCHANGED connVars

\* the page loads: the runtime invokes each of the two handlers once
ContainersInitial(c, h) ==
    /\ call.mode = "containers"
    /\ <<c, h>> \in call.pending
    /\ call' = [call EXCEPT !.op = "initial", !.pending = @ \ {<<c, h>>}]
    /\ ret' = IF h = "pred" THEN update_reg_hidden_div_pred_sliders(call.preds_or_y[c])
              ELSE update_reg_hidden_div_residual_sliders(call.abs_residual[c])
    /\ screen' = [screen EXCEPT ![c] =
                     IF h = "pred" THEN Restyled(@, "pred", "y", ret')
                     ELSE Restyled(@, "residual", "abs_residual", ret')]
    /\ UNCHANGED <<nameVars, regVars>>
    /\ UNCHANGED connVars

\* the user changes the preds-or-y selector (hidden when the model has no
\* observed values)
SelectPredsOrY(c, v) ==
    /\ call.mode = "containers"
    /\ ~call.y_missing
    /\ call.pending = {}
    /\ call.n < MaxToggles
    /\ v # call.preds_or_y[c]
    /\ call' = [call EXCEPT !.op = "pred", !.preds_or_y[c] = v, !.n = @ + 1]
    /\ ret' = update_reg_hidden_div_pred_sliders(v)
    /\ screen' = [screen EXCEPT ![c] = Restyled(@, "pred", "y", ret')]
    /\ UNCHANGED <<nameVars, regVars>>
    /\ UNCHANGED connVars

\* the user changes the residual-type selector
SelectResidualType(c, v) ==
    /\ call.mode = "containers"
    /\ ~call.y_missing
    /\ call.pending = {}
    /\ call.n < MaxToggles
    /\ v # call.abs_residual[c]
    /\ call' = [call EXCEPT !.op = "residual", !.abs_residual[c] = v, !.n = @ + 1]
    /\ ret' = update_reg_hidden_div_residual_sliders(v)
    /\ screen' = [screen EXCEPT ![c] = Restyled(@, "residual", "abs_residual", ret')]
    /\ UNCHANGED <<nameVars, regVars>>
    /\ UNCHANGED connVars

NextContainers ==
    \/ \E pred_or_y \in [ContainerNames -> {"preds", "y"}],
          abs_residuals \in [ContainerNames -> BOOLEAN], y_missing \in BOOLEAN :
           ContainersLayout(pred_or_y, abs_residuals, y_missing)
    \/ \E c \in ContainerNames, h \in {"pred", "residual"} : ContainersInitial(c, h)
    \/ \E c \in ContainerNames, v \in {"preds", "y"} : SelectPredsOrY(c, v)
    \/ \E c \in ContainerNames, v \in {"absolute", "relative"} : SelectResidualType(c, v)

SpecContainers == InitNames /\ [][NextContainers]_vars

\* C31: from the layout on, the predicted-range container of a component
\* is the visible one exactly when its preds-or-y selector holds "preds" and
\* the observed-range container exactly when it holds "y"; the
\* absolute-residual container is the visible one exactly when its
\* residual-type selector holds "absolute" and the residual container exactly
\* when it holds "relative"
C31_OneContainerVisible ==
    call.mode = "containers" =>
        \A c \in ContainerNames :
            /\ screen[c].pred = (IF call.preds_or_y[c] = "preds" THEN StyleNone ELSE Hidden)
            /\ screen[c].y = (IF call.preds_or_y[c] = "y" THEN StyleNone ELSE Hidden)
            /\ screen[c].residual =
                   (IF call.abs_residual[c] = "relative" THEN StyleNone ELSE Hidden)
            /\ screen[c].abs_residual =
                   (IF call.abs_residual[c] = "absolute" THEN StyleNone ELSE Hidden)
C31_Witness ==
    /\ call.mode = "containers"
    /\ call.n = MaxToggles
    /\ call.op = "residual"
    /\ call.preds_or_y["A"] = "y"
    /\ call.abs_residual["A"] = "relative"
    /\ screen["A"].y = StyleNone /\ screen["A"].pred = Hidden
    /\ screen["A"].residual = StyleNone /\ screen["A"].abs_residual = Hidden

\* ------------------------------------------------- random index
\* the index of a record of the regression model
index_of(r) == IF r.pred = 1 THEN "17" ELSE IF r.pred = 2 THEN "42" ELSE "63"
Within(x, rg) == x >= rg[1] /\ x <= rg[2]

\* explainer.random_index(..., return_str=True): the index of some record
\* within every range given, or None when there is none; a range not given
\* is NoneVal
random_index(pred, y, residuals, abs_residuals) ==
    LET matching == {r \in Records :
                        /\ pred # NoneVal => Within(r.pred, pred)
                        /\ y # NoneVal => Within(r.y, y)
                        /\ residuals # NoneVal => Within(residual(r), residuals)
                        /\ abs_residuals # NoneVal => Within(abs(residual(r)), abs_residuals)}
    IN  IF matching = {} THEN {NoneVal} ELSE {index_of(r) : r \in matching}

RandomControls ==
    [trig : {"", "button", "other"},
     preds_or_y : {"preds", "y", NoneVal},
     abs_residuals_toggle : {"absolute", "relative", NoneVal},
     pred_range : {<<1, 3>>, <<0, 0>>, <<3, 3>>},
     y_range : {<<-1, 6>>, <<7, 7>>},
     residual_range : {<<-2, 3>>, <<3, 3>>, <<4, 4>>},
     abs_residuals_range : {<<0, 3>>, <<0, 0>>}]

\* what the call of random_index made for the controls may return
RandomIndexFor(in) ==
    IF in.preds_or_y = "preds"
    THEN IF in.abs_residuals_toggle = "absolute"
         THEN random_index(in.pred_range, NoneVal, NoneVal, in.abs_residuals_range)
         ELSE random_index(in.pred_range, NoneVal, in.residual_range, NoneVal)
    ELSE IF in.abs_residuals_toggle = "absolute"
         THEN random_index(NoneVal, in.y_range, NoneVal, in.abs_residuals_range)
         ELSE random_index(NoneVal, in.y_range, in.residual_range, NoneVal)

\* the results update_index may produce
update_index_any_trigger(in) ==
    IF in.preds_or_y \notin {"preds", "y"} THEN {NoOp}
    ELSE {IF idx = NoneVal THEN NoOp ELSE Out(<<idx>>) : idx \in RandomIndexFor(in)}

update_index(in) ==
    IF in.trig # "button" THEN {NoOp}
    ELSE IF in.preds_or_y \notin {"preds", "y"} THEN {NoOp}
    ELSE {IF idx = NoneVal THEN NoOp ELSE Out(<<idx>>) : idx \in RandomIndexFor(in)}

\* the page is served with some record, or none, selected
RandomLoad(in, index) ==
    /\ call = NoCall
    /\ in.trig = ""
    /\ call' = [op |-> "load", mode |-> "random", drop |-> "none", in |-> in, k |-> 0]
    /\ screen' = <<index>>
    /\ ret' = NoRet
    /\ UNCHANGED <<nameVars, regVars>>
    /\ UNCHANGED connVars

\* the runtime invokes the handler: with no trigger when the page loads, by
\* a click of the button afterwards
RandomInvoke(trig) ==
    /\ call.mode = "random"
    /\ call' = [call EXCEPT !.op = "invoke", !.in.trig = trig, !.k = 1 - @]
    /\ ret' \in update_index(call'.in)
    /\ screen' = IF ret'.kind = "return" THEN ret'.vals ELSE screen
    /\ UNCHANGED <<nameVars, regVars>>
    /\ UNCHANGED connVars

\* the user moves a slider or a selector: all of them are State of the handler
RandomSet(in) ==
    /\ call.mode = "random"
    /\ in.trig = call.in.trig
    /\ Cardinality({f \in DOMAIN in : in[f] # call.in[f]}) = 1
    /\ call' = [call EXCEPT !.op = "set", !.in = in]
    /\ UNCHANGED <<ret, screen, nameVars, regVars>>
    /\ UNCHANGED connVars

NextRandom ==
    \/ \E in \in RandomControls, index \in {NoneVal, "17"} : RandomLoad(in, index)
    \/ \E trig \in {"", "button", "other"} : RandomInvoke(trig)
    \/ \E in \in RandomControls : RandomSet(in)

SpecRandom == InitNames /\ [][NextRandom]_vars

RandomInvoked == call'.op = "invoke" /\ call'.k # call.k
\* the records within the ranges of the sliders the two selectors name
Satisfying(in, toggle) ==
    {index_of(r) : r \in {r \in Records :
        /\ in.preds_or_y = "preds" => Within(r.pred, in.pred_range)
        /\ in.preds_or_y = "y" => Within(r.y, in.y_range)
        /\ toggle = "absolute" => Within(abs(residual(r)), in.abs_residuals_range)
        /\ toggle = "relative" => Within(residual(r), in.residual_range)}}

MaxInputs == 8      \* inputs of a FeatureInputComponent
MaxCols == 5        \* columns asked for

\* ceil(n / k) for k > 0
ceil(n, k) == (n + k - 1) \div k
\* list(range(start, stop, step)), and the indices slice(start, stop) selects
range(start, stop, step) ==
    IF stop <= start THEN <<>>
    ELSE [j \in 1..ceil(stop - start, step) |-> start + (j - 1) * step]
NonEmptyGroup(g) == g # <<>>

get_slices_cols_first_floor(n_inputs, n_cols) ==
    IF n_inputs = 0 THEN <<>>
    ELSE LET cols == min2(n_cols, n_inputs)
             rows_per_col == n_inputs \div cols
         IN  SelectSeq([col \in 1..cols |->
                           range((col - 1) * rows_per_col,
                                 min2((col - 1) * rows_per_col + rows_per_col, n_inputs), 1)],
                       NonEmptyGroup)

get_slices_cols_first(n_inputs, n_cols) ==
    IF n_inputs = 0 THEN <<>>
    ELSE LET cols == min2(n_cols, n_inputs)
             rows_per_col == ceil(n_inputs, cols)
         IN  SelectSeq([col \in 1..cols |->
                           range((col - 1) * rows_per_col,
                                 min2((col - 1) * rows_per_col + rows_per_col, n_inputs), 1)],
                       NonEmptyGroup)

get_slices_rows_first(n_inputs, n_cols) ==
    IF n_inputs = 0 THEN <<>>
    ELSE LET cols == min2(n_cols, n_inputs)
         IN  SelectSeq([i \in 1..cols |-> range(i - 1, n_inputs, cols)], NonEmptyGroup)

InitSlices ==
    /\ ConnIdle
    /\ comps = <<>> /\ registry = {} /\ cand = NoCand
    /\ \E n \in 0..MaxInputs, c \in 1..MaxCols :
           call = [op |-> "none", mode |-> "slices", drop |-> "none", n |-> n, c |-> c]
    /\ ret = NoRet /\ screen = <<>>
    /\ insts = <<>> /\ cache = {} /\ calls = <<>> /\ pc = <<>> /\ recv = <<>>
    /\ hist = NoHist

\* layout() with fill_row_first False, and with fill_row_first True
ColsFirst ==
    /\ call.op = "none"
    /\ call' = [call EXCEPT !.op = "cols_first"]
    /\ ret' = Out(get_slices_cols_first(call.n, call.c))
    /\ UNCHANGED <<screen, nameVars, regVars>>
    /\ UNCHANGED connVars
RowsFirst ==
    /\ call.op = "none"
    /\ call' = [call EXCEPT !.op = "rows_first"]
    /\ ret' = Out(get_slices_rows_first(call.n, call.c))
    /\ UNCHANGED <<screen, nameVars, regVars>>
    /\ UNCHANGED connVars

NextSlices == ColsFirst \/ RowsFirst

SpecSlices == InitSlices /\ [][NextSlices]_vars

\* C33: both functions return at most c groups, none of them empty, in
\* which every index 0..n-1 occurs exactly once (so none for n = 0); a group
\* of cols_first is a run of consecutive indices, and group i of rows_first
\* holds, in ascending order, the indices congruent to i modulo min(c, n)
Occurrences(groups, x) ==
    Cardinality({p \in (DOMAIN groups) \X (0..MaxInputs + 1) :
                    p[2] \in DOMAIN groups[p[1]] /\ groups[p[1]][p[2]] = x})
C33_SlicesPartitionInputs ==
    call.op \in {"cols_first", "rows_first"} =>
        LET groups == ret.vals
            k == min2(call.c, call.n)
        IN  /\ Len(groups) <= call.c
            /\ \A i \in DOMAIN groups : groups[i] # <<>>
            /\ \A x \in 0..(call.n - 1) : Occurrences(groups, x) = 1
            /\ \A i \in DOMAIN groups : \A j \in DOMAIN groups[i] :
                   groups[i][j] \in 0..(call.n - 1)
            /\ call.n = 0 => groups = <<>>
            /\ call.op = "cols_first" =>
                   \A i \in DOMAIN groups : \A j \in 2..Len(groups[i]) :
                       groups[i][j] = groups[i][j - 1] + 1
            /\ call.op = "rows_first" =>
                   \A i \in DOMAIN groups :
                       /\ \A j \in DOMAIN groups[i] : groups[i][j] % k = i - 1
                       /\ Len(groups[i])
                              = Cardinality({x \in 0..(call.n - 1) : x % k = i - 1})
                       /\ \A j \in 2..Len(groups[i]) : groups[i][j] > groups[i][j - 1]
C33_Witness ==
    /\ call.op = "cols_first" /\ call.n = 5 /\ call.c = 4
    /\ ret = Out(<< <<0, 1>>, <<2, 3>>, <<4>> >>)

\* ------------------------------------------------- state-field table of the inputs
MaxFeatures == 3    \* columns of the model

ColumnNames == {"age", "sex", "fare", "index"}
\* the lists of unique column names of at most MaxFeatures columns
RECURSIVE UniqueLists(_)
UniqueLists(n) ==
    IF n = 0 THEN {<<>>}
    ELSE UniqueLists(n - 1)
         \cup {Append(q, c) : q \in {p \in UniqueLists(n - 1) : Len(p) = n - 1},
                              c \in ColumnNames}
InputFeatureLists ==
    {q \in UniqueLists(MaxFeatures) : \A i, j \in DOMAIN q : i # j => q[i] # q[j]}

\* d[k] = v on a dict
Put(d, k, v) == [x \in DOMAIN d \cup {k} |-> IF x = k THEN v ELSE d[x]]

\* the loop of __init__ over self._input_features, then the "index" entry
RECURSIVE feature_state_props(_, _)
feature_state_props(features, props) ==
    IF features = <<>> THEN props
    ELSE feature_state_props(Tail(features),
             Put(props, Head(features), <<"feature-input-", Head(features), "-input-">>))
FeatureInput_state_props(features) ==
    Put(feature_state_props(features, <<>>), "index", <<"feature-input-index-">>)

\* what PdpComponent.to_html and ShapContributionsGraphComponent.to_html keep
\* of the fields: every key but "index"
inputs_of(props) == DOMAIN props \ {"index"}

InitFeatureTable ==
    /\ ConnIdle
    /\ comps = <<>> /\ registry = {} /\ cand = NoCand
    /\ \E q \in InputFeatureLists, name \in {"A", "B"} :
           call = [op |-> "none", mode |-> "table", drop |-> "none",
                   input_features |-> q, name |-> name]
    /\ ret = NoRet /\ screen = <<>>
    /\ insts = <<>> /\ cache = {} /\ calls = <<>> /\ pc = <<>> /\ recv = <<>>
    /\ hist = NoHist

FeatureTableConstruct ==
    /\ call.op = "none"
    /\ call' = [call EXCEPT !.op = "constructed"]
    /\ ret' = Out(FeatureInput_state_props(call.input_features))
    /\ UNCHANGED <<screen, nameVars, regVars>>
    /\ UNCHANGED connVars

\* a consumer reads the fields and drops "index"
FeatureTableConsume ==
    /\ call.op = "constructed"
    /\ call' = [call EXCEPT !.op = "consumed"]
    /\ screen' = inputs_of(ret.vals)
    /\ UNCHANGED <<ret, nameVars, regVars>>
    /\ UNCHANGED connVars

NextFeatureTable == FeatureTableConstruct \/ FeatureTableConsume

SpecFeatureTable == InitFeatureTable /\ [][NextFeatureTable]_vars

\* C34: the state-field table of a constructed FeatureInputComponent holds
\* one entry per input feature, on the channel of its input, and the entry
\* "index" on the index channel; the entries other than "index" are as many
\* as the input features, so a consumer that drops "index" has one value per
\* input feature
C34_OneFieldPerFeature ==
    /\ call.op \in {"constructed", "consumed"} =>
           LET props == ret.vals
               features == call.input_features
           IN  /\ "index" \in DOMAIN props
               /\ props["index"] = <<"feature-input-index-">>
               /\ \A i \in DOMAIN features :
                      /\ features[i] \in DOMAIN props
                      /\ props[features[i]] = <<"feature-input-", features[i], "-input-">>
               /\ Cardinality(DOMAIN props \ {"index"}) = Len(features)
    /\ call.op = "consumed" => Cardinality(screen) = Len(call.input_features)

\* =========================================== the dependence component, live
\* ShapDependenceComponent (shap_components.py:420-878): the col dropdown, the
\* color-col dropdown, the index selector and the graph, with the two
\* callbacks that component_callbacks registers.
DependenceColumns == {"age", "sex", "fare"}
dependence_cat_cols == {"sex"}
NoColorCol == "no_color_col"

\* the rankings of the columns S: every order of them
Rankings(S) == {q \in [1..Cardinality(S) -> S] : Range(q) = S}

\* explainer.top_shap_interactions(col, pos_label): the columns S of the model
\* ranked by their interaction with col, in an order that the model's data
\* and the selected label decide
top_shap_interactions(S) == Rankings(S)

\* the models: a non-empty set of columns
DependenceModels == {[columns |-> S] : S \in (SUBSET DependenceColumns) \ {{}}}

\* options = [{label: c, value: c} for c in sorted_interact_cols] + [no_color_col]
color_col_options(sorted_interact_cols) == Append(sorted_interact_cols, NoColorCol)

\* the value chosen for the color-col dropdown (shap_components.py:822-832)
new_color_col_val(sorted_interact_cols, col, current_color_col) ==
    IF Len(sorted_interact_cols) > 1
    THEN IF current_color_col \in Range(sorted_interact_cols) /\ current_color_col # col
         THEN current_color_col
         ELSE IF sorted_interact_cols[2] # col
         THEN sorted_interact_cols[2]
         ELSE IF Len(sorted_interact_cols) > 2 /\ sorted_interact_cols[3] # col
         THEN sorted_interact_cols[3]
         ELSE NoColorCol
    ELSE NoColorCol

\* the same handler, leaving the color-col value alone when it keeps it
set_color_col_dropdown_silent(sorted_interact_cols, col, current_color_col) ==
    IF col = NoneVal THEN NoOp
    ELSE LET v == new_color_col_val(sorted_interact_cols, col, current_color_col)
             style == IF col \in dependence_cat_cols THEN "{}" ELSE "dict(display='none')"
         IN Out(<<color_col_options(sorted_interact_cols), IF v = current_color_col THEN NoUpdateVal ELSE v, style, style>>)

\* set_color_col_dropdown(col, pos_label, current_color_col), given the list
\* self.explainer.top_shap_interactions(col, pos_label=pos_label)
set_color_col_dropdown(sorted_interact_cols, col, current_color_col) ==
    IF col = NoneVal THEN NoOp
    ELSE LET v == new_color_col_val(sorted_interact_cols, col, current_color_col)
             style == IF col \in dependence_cat_cols THEN "{}" ELSE "dict(display='none')"
         IN Out(<<color_col_options(sorted_interact_cols), v, style, style>>)

\* update_dependence_graph(color_col, index, ..., col): the figure drawn
update_dependence_graph(color_col, index, col) ==
    IF col # NoneVal
    THEN IF color_col = NoColorCol
         THEN Out(<<[col |-> col, color_col |-> NoneVal, highlight_index |-> NoneVal]>>)
         ELSE Out(<<[col |-> col, color_col |-> color_col, highlight_index |-> index]>>)
    ELSE NoOp

NoFigure == [col |-> "unset", color_col |-> "unset", highlight_index |-> "unset"]
NoRun == [handler |-> "none", cols |-> <<>>, col |-> "unset", current |-> "unset", r |-> NoOp]
DependenceHandlers == {"set_color_col_dropdown", "update_dependence_graph"}

\* the page is loaded: self.col is columns_ranked_by_shap()[0], self.color_col
\* is top_interactions[1] or None, and the runtime requests both callbacks
InitDependence ==
    /\ ConnIdle
    /\ comps = <<>> /\ cand = NoCand
    /\ insts = <<>> /\ cache = {} /\ calls = <<>> /\ pc = <<>> /\ recv = <<>>
    /\ \E m \in DependenceModels, c \in DependenceColumns :
          /\ c \in m.columns
          /\ registry = m
          /\ \E top_interactions \in top_shap_interactions(m.columns) :
               call = [col |-> c,
                     color_col |-> IF Len(top_interactions) > 1 THEN top_interactions[2] ELSE NoneVal,
                     index |-> NoneVal, n |-> 0, selected |-> 0, stale |-> TRUE]
    /\ screen = DependenceHandlers
    /\ hist = NoFigure
    /\ ret = NoRun

\* the user selects (or clears) the feature: Input of set_color_col_dropdown,
\* State of update_dependence_graph
SelectCol(v) ==
    /\ call.n < MaxChanges
    /\ v # call.col
    /\ call' = [call EXCEPT !.col = v, !.n = @ + 1, !.selected = @ + 1, !.stale = TRUE]
    /\ screen' = screen \cup {"set_color_col_dropdown"}
    /\ UNCHANGED <<hist, ret, registry>>
    /\ UNCHANGED <<connVars, comps, cand, insts, cache, calls, pc, recv>>

\* the user selects the color feature: Input of update_dependence_graph
SelectColorCol(v) ==
    /\ call.n < MaxChanges
    /\ v # call.color_col
    /\ call' = [call EXCEPT !.color_col = v, !.n = @ + 1]
    /\ screen' = screen \cup {"update_dependence_graph"}
    /\ UNCHANGED <<hist, ret, registry>>
    /\ UNCHANGED <<connVars, comps, cand, insts, cache, calls, pc, recv>>

\* the user selects the record to highlight: Input of update_dependence_graph
SelectDependenceIndex(v) ==
    /\ call.n < MaxChanges
    /\ v # call.index
    /\ call' = [call EXCEPT !.index = v, !.n = @ + 1]
    /\ screen' = screen \cup {"update_dependence_graph"}
    /\ UNCHANGED <<hist, ret, registry>>
    /\ UNCHANGED <<connVars, comps, cand, insts, cache, calls, pc, recv>>

\* the runtime runs set_color_col_dropdown; a returned color-col value is
\* written and requests the callback that has it as Input
RunSetColorCol ==
    /\ "set_color_col_dropdown" \in screen
    /\ \E cols \in IF call.col = NoneVal THEN {<<>>} ELSE top_shap_interactions(registry.columns) :
       LET r == set_color_col_dropdown(cols, call.col, call.color_col)
           writes == r.kind = "return" /\ r.vals[2] # NoUpdateVal
       IN /\ ret' = [handler |-> "set_color_col_dropdown", cols |-> cols, col |-> call.col, current |-> call.color_col, r |-> r]
          /\ call' = IF writes THEN [call EXCEPT !.color_col = r.vals[2]] ELSE call
          /\ screen' = (screen \ {"set_color_col_dropdown"}) \cup (IF writes THEN {"update_dependence_graph"} ELSE {})
    /\ UNCHANGED <<hist, registry>>
    /\ UNCHANGED <<connVars, comps, cand, insts, cache, calls, pc, recv>>

\* the runtime runs update_dependence_graph, once no callback that writes one
\* of its Inputs is outstanding; it reads col as State
RunDependenceGraph ==
    /\ "update_dependence_graph" \in screen
    /\ "set_color_col_dropdown" \notin screen
    /\ LET r == update_dependence_graph(call.color_col, call.index, call.col)
       IN /\ ret' = [handler |-> "update_dependence_graph", cols |-> <<>>, col |-> call.col, current |-> call.color_col, r |-> r]
          /\ hist' = IF r.kind = "return" THEN r.vals[1] ELSE hist
          /\ call' = IF r.kind = "return" THEN [call EXCEPT !.stale = FALSE] ELSE call
    /\ screen' = screen \ {"update_dependence_graph"}
    /\ UNCHANGED registry
    /\ UNCHANGED <<connVars, comps, cand, insts, cache, calls, pc, recv>>

NextDependence ==
    \/ \E v \in DependenceColumns \cup {NoneVal} : v \in registry.columns \cup {NoneVal} /\ SelectCol(v)
    \/ \E v \in DependenceColumns \cup {NoColorCol} : v \in registry.columns \cup {NoColorCol} /\ SelectColorCol(v)
    \/ \E v \in {NoneVal, "1"} : SelectDependenceIndex(v)
    \/ RunSetColorCol
    \/ RunDependenceGraph

SpecDependence == InitDependence /\ [][NextDependence]_vars

\* the runtime runs every requested callback
FairDependence == SpecDependence /\ WF_vars(RunSetColorCol) /\ WF_vars(RunDependenceGraph)

\* C35: set_color_col_dropdown, for every col other than None, returns a
\* color-col value that is among the returned option values and differs from
\* col: the current color col when that is among the interaction columns and
\* differs from col, otherwise an interaction column different from col when
\* there is one, otherwise 'no_color_col'; for col None it signals no-op.
C35_ColorColAmongOptionsNotCol ==
    ret.handler = "set_color_col_dropdown" =>
        IF ret.col = NoneVal THEN ret.r.kind = "noop"
        ELSE LET others == Range(ret.cols) \ {ret.col}
             IN /\ ret.r.kind = "return"
                /\ ret.r.vals[2] \in Range(ret.r.vals[1])
                /\ ret.r.vals[2] # ret.col
                /\ ret.current \in others => ret.r.vals[2] = ret.current
                /\ (ret.current \notin others /\ others # {}) => ret.r.vals[2] \in others
                /\ others = {} => ret.r.vals[2] = NoColorCol

\* C36: after the user selected a feature c other than None, the graph is
\* eventually drawn again with col = c, unless the selection changes again
\* first: the graph callback has col as State only, and it is requested by
\* the color-col value that set_color_col_dropdown writes.
C36_ColChangeRerendersGraph ==
    \A c \in DependenceColumns : (call.stale /\ call.col = c) ~> ((~call.stale /\ hist.col = c) \/ call.col # c)

\* C36 witness: the user selected the feature, set_color_col_dropdown kept
\* the color col, and the graph was drawn again with the selected feature.
C36_Witness ==
    /\ call.selected > 0 /\ call.n = call.selected
    /\ ~call.stale /\ screen = {}
    /\ ret.handler = "update_dependence_graph"
    /\ hist.col = call.col /\ call.col # NoneVal
    /\ hist.color_col = call.color_col

\* =============================================== the importances component
\* ImportancesComponent.__init__ (overview_components.py:207-296)
ImportanceTypes == {"shap", "permutation", "gain"}
ImportancesArgs == [hide_type : BOOLEAN, importance_type : ImportanceTypes, no_permutations : BOOLEAN]

\* self.register_dependencies(*names): the names are added to the ones the
\* component declared before
register_dependencies(declared, names) == declared \cup names

\* the constructed component, or the fault of the assert; the base __init__
\* stores the arguments as attributes of the same names
Importances(a, hide_type, importance_type, deps) == [args |-> a, hide_type |-> hide_type, importance_type |-> importance_type, no_permutations |-> a.no_permutations, dependencies |-> deps]

\* the same constructor without the override for a missing target or
\* no_permutations
ImportancesComponent_init_no_override(y_missing, a) ==
    IF a.importance_type \notin {"shap", "permutation"} THEN Fault("AssertionError")
    ELSE LET first == register_dependencies({}, {"shap_values_df"})
         IN Out(<<Importances(a, a.hide_type, a.importance_type,
                     IF ~(a.hide_type /\ a.importance_type = "shap")
                     THEN register_dependencies(first, {"permutation_importances"})
                     ELSE first)>>)

ImportancesComponent_init(y_missing, a) ==
    IF a.importance_type \notin {"shap", "permutation"} THEN Fault("AssertionError")
    ELSE LET override == y_missing \/ a.no_permutations
             hide_type == IF override THEN TRUE ELSE a.hide_type
             importance_type == IF override THEN "shap" ELSE a.importance_type
             first == register_dependencies({}, {"shap_values_df"})
         IN Out(<<Importances(a, hide_type, importance_type,
                     IF ~(hide_type /\ importance_type = "shap")
                     THEN register_dependencies(first, {"permutation_importances"})
                     ELSE first)>>)

\* layout(): the controls shown; make_hideable(..., self.hide_type) hides the
\* type selector, whose value is self.importance_type
ImportancesComponent_layout(self) ==
    [shown |-> {"importances-graph-", "importances-depth-"} \cup (IF self.hide_type THEN {} ELSE {"importances-permutation-or-shap-"}),
     importance_type |-> self.importance_type]

NoLayout == [shown |-> {}, importance_type |-> "unset"]

\* a model with or without a target, and no component yet
InitImportances ==
    /\ ConnIdle
    /\ comps = <<>> /\ registry = {} /\ cand = NoCand
    /\ \E y_missing \in BOOLEAN : call = [op |-> "none", y_missing |-> y_missing, i |-> 0]
    /\ ret = NoRet
    /\ screen = NoLayout
    /\ insts = <<>> /\ cache = {} /\ calls = <<>> /\ pc = <<>> /\ recv = <<>>
    /\ hist = NoHist

\* ImportancesComponent(explainer, hide_type=..., importance_type=...,
\* no_permutations=...)
ImportancesConstruct(a) ==
    /\ Len(insts) < MaxInsts
    /\ LET r == ImportancesComponent_init(call.y_missing, a)
       IN /\ ret' = r
          /\ insts' = IF r.kind = "return" THEN Append(insts, r.vals[1]) ELSE insts
    /\ call' = [call EXCEPT !.op = "construct", !.i = 0]
    /\ UNCHANGED <<screen, cache, calls, pc, recv, hist>>
    /\ UNCHANGED <<connVars, nameVars>>

\* insts[i].layout()
ImportancesLayout(i) ==
    /\ screen' = ImportancesComponent_layout(insts[i])
    /\ call' = [call EXCEPT !.op = "layout", !.i = i]
    /\ UNCHANGED <<ret, insts, cache, calls, pc, recv, hist>>
    /\ UNCHANGED <<connVars, nameVars>>

NextImportances ==
    \/ \E a \in ImportancesArgs : ImportancesConstruct(a)
    \/ \E i \in DOMAIN insts : ImportancesLayout(i)

SpecImportances == InitImportances /\ [][NextImportances]_vars

PermutationsOff(self) == self.args.no_permutations \/ call.y_missing
AvoidsPermutations(self) ==
    /\ self.importance_type = "shap"
    /\ self.hide_type
    /\ "permutation_importances" \notin self.dependencies
SelectorHiddenWhenOff ==
    call.op = "layout" /\ PermutationsOff(insts[call.i])
        => "importances-permutation-or-shap-" \notin screen.shown /\ screen.importance_type = "shap"

\* C37 as claimed: a component built with no_permutations=True or on a
\* model without target has type 'shap', a hidden type selector and no
\* 'permutation_importances' dependency; every other component declares
\* both 'shap_values_df' and 'permutation_importances'.
C37_Orig_OtherwiseBothDependencies ==
    /\ SelectorHiddenWhenOff
    /\ \A i \in DOMAIN insts :
          IF PermutationsOff(insts[i]) THEN AvoidsPermutations(insts[i])
          ELSE insts[i].dependencies = {"shap_values_df", "permutation_importances"}

\* C37, corrected: a component built with no_permutations=True or on a
\* model without target has type 'shap', a hidden type selector and no
\* 'permutation_importances' dependency; every other component declares
\* 'shap_values_df', and 'permutation_importances' too unless it was built
\* with hide_type=True and importance_type='shap'.
C37_PermutationsOnlyWhenSelectable ==
    /\ SelectorHiddenWhenOff
    /\ \A i \in DOMAIN insts :
          IF PermutationsOff(insts[i]) THEN AvoidsPermutations(insts[i])
          ELSE insts[i].dependencies =
                  IF insts[i].args.hide_type /\ insts[i].args.importance_type = "shap"
                  THEN {"shap_values_df"}
                  ELSE {"shap_values_df", "permutation_importances"}

\* C37 witness: on a model with target, one component was built with
\* no_permutations=True and importance_type='permutation' and declares
\* 'shap_values_df' only, another was built with the selector shown and
\* declares both, and the layout of the first hides the selector.
C37_Witness ==
    /\ ~call.y_missing /\ Len(insts) = 2
    /\ insts[1].args = [hide_type |-> FALSE, importance_type |-> "permutation", no_permutations |-> TRUE]
    /\ insts[1].dependencies = {"shap_values_df"} /\ insts[1].importance_type = "shap"
    /\ insts[2].args = [hide_type |-> FALSE, importance_type |-> "shap", no_permutations |-> FALSE]
    /\ insts[2].dependencies = {"shap_values_df", "permutation_importances"}
    /\ call.op = "layout" /\ call.i = 1
    /\ "importances-permutation-or-shap-" \notin screen.shown

============================================================================
